---- MODULE Spec2Model ----
(***************************************************************************)
(* Transport incident analytics backend: the repository (PostgreSQL store  *)
(* adapter, backend/repository.go = src/unnamed/part_000), the schema      *)
(* (README, src/unnamed/part_004) and the gRPC service that drives it      *)
(* (backend/service.go, second half of src/backend/service_test.go).       *)
(*                                                                         *)
(* Every inbound call runs on its own worker.  A worker is idle or inside  *)
(* one service call; each SQL statement the call issues is one atomic      *)
(* step (PostgreSQL, READ COMMITTED, the default of BeginTxx(ctx, nil)).   *)
(*                                                                         *)
(* Strings are sequences of chunks: a chunk is one space or a piece of     *)
(* text without spaces.  Names use one-character chunks, so Len is the     *)
(* byte length the code compares with 100.                                 *)
(***************************************************************************)
EXTENDS Integers, Sequences, FiniteSets, TLC

VARIABLES
    lines,          \* table lines:     set of [id, name]
    stations,       \* table stations:  set of [id, name, line_id, status]
    incidents,      \* table incidents: set of [id, station_id, line_id, ts, duration_minutes, incident_type]
    nextId,         \* uuid_generate_v4(): ids are fresh, never reused
    pc,             \* per worker: the statement the call is about to issue
    req,            \* per worker: the request being served
    line,           \* per worker: local `line` of Service.CreateIncident (id of the row)
    station,        \* per worker: local `station` of Service.CreateIncident (id of the row)
    current,        \* per worker: local `current` of Repository.UpdateStation
    tx,             \* per worker: row inserted by the open transaction, not yet committed
    ret,            \* the response a call has just returned (NoRet on every other step)
    lastCreateLine, \* history: per name, the id the latest CreateLine(name) returned, 0 once deleted
    submitted,      \* history: [station_id, line_id, ts, id, duration_minutes] of every incident reported
    atReturn,       \* history: the tables as they were when the latest call returned
    pool            \* sql.DB: connections in use, requests waiting, and where each caller stands

vars == <<lines, stations, incidents, nextId, pc, req, line, station, current, tx, ret,
          lastCreateLine, submitted, atReturn, pool>>

-----------------------------------------------------------------------------
(* Bounds of the model *)

\* number of ids the store may generate in one run
MaxId == 4

\* the most incidents in a store the analytics queries are run on
MaxIncidents == 4

\* two concurrent callers
Workers == {"w1", "w2"}

-----------------------------------------------------------------------------
(* Strings *)

SP == " "

RECURSIVE TrimLeft(_)
TrimLeft(s) == IF s # <<>> /\ Head(s) = SP THEN TrimLeft(Tail(s)) ELSE s

RECURSIVE TrimRight(_)
TrimRight(s) ==
    IF s # <<>> /\ s[Len(s)] = SP THEN TrimRight(SubSeq(s, 1, Len(s) - 1)) ELSE s

\* strings.TrimSpace
TrimSpace(s) == TrimRight(TrimLeft(s))

\* strings.ToLower, on the chunks requests use
LowerChunk(c) ==
    IF c = "LINE" THEN "line" ELSE IF c = "STATION" THEN "station" ELSE c

ToLower(s) == [i \in 1 .. Len(s) |-> LowerChunk(s[i])]

active      == <<"active">>
inactive    == <<"inactive">>
maintenance == <<"maintenance">>
closed      == <<"closed">>

validStatuses == {active, inactive, maintenance, closed}

validTypes == {"mechanical", "power", "signal", "weather", "other"}

\* "name must not exceed 100 characters"
MaxNameLen == 100

\* "duration_minutes must be between 0 and 1440"
MaxDuration == 1440

\* limits of the analytics queries
DefaultTopLimit == 5
DefaultRecentLimit == 20
MaxLimit == 100

-----------------------------------------------------------------------------
(* Requests, responses, locals *)

NoReq == [op |-> "none", line |-> <<>>, station |-> <<>>, name |-> <<>>, id |-> 0,
          line_id |-> 0, status |-> <<>>, ts |-> 0, duration_minutes |-> 0,
          incident_type |-> "", scope |-> <<>>, limit |-> 0]

NoRet == [req |-> NoReq, code |-> "none", msg |-> "", err |-> "nil", cause |-> "",
          id |-> 0, name |-> <<>>, line_id |-> 0, station_id |-> 0, status |-> <<>>,
          duration_minutes |-> 0, incident_type |-> "", scope |-> <<>>, limit |-> 0,
          items |-> <<>>]

NoTx == [tbl |-> "none", id |-> 0, name |-> <<>>, line_id |-> 0]

\* sql.DB after sqlx.Connect: no connection in use and no caller at work. `me`
\* is where one caller stands, the other fields count the other callers by
\* where they stand
NoCalls == [inUse |-> 0, me |-> "idle", waitTx |-> 0, waitDb |-> 0, sel |-> 0, ins |-> 0, stmt |-> 0]

NoCurrent == [name |-> <<>>, status |-> <<>>]

\* time.Now().UTC(): timestamps 1 .. Now are past or present, Now + 1 is in the future
Now == 4

\* the names lines go by
LineNames == {<<"A">>, <<"B">>}

\* id strings a caller may send: 0 is no uuid, the others are well formed
IdInputs == 0 .. MaxId

\* what callers send: the well-formed requests, and malformed ones for each rule
CreateIncidentRequests ==
    LET r == [NoReq EXCEPT !.op = "CreateIncident", !.line = <<"A">>, !.station = <<"X">>,
                           !.ts = 1, !.duration_minutes = 10,
                           !.incident_type = "mechanical"]
    IN  {r, [r EXCEPT !.duration_minutes = 20, !.incident_type = "power"],
         [r EXCEPT !.ts = Now], [r EXCEPT !.line = <<"B">>]}
        \cup {[r EXCEPT !.line = <<SP>>], [r EXCEPT !.station = <<>>], [r EXCEPT !.ts = 0],
              [r EXCEPT !.ts = Now + 1], [r EXCEPT !.duration_minutes = 1441],
              [r EXCEPT !.incident_type = "bogus"]}

CreateLineRequests ==
    {[NoReq EXCEPT !.op = "CreateLine", !.name = n] :
        n \in LineNames \cup {<<SP>>, <<SP, "A", SP>>}}

UpdateLineRequests ==
    {[NoReq EXCEPT !.op = "UpdateLine", !.id = i, !.name = n] :
        i \in 1 .. MaxId, n \in LineNames}
    \cup {[NoReq EXCEPT !.op = "UpdateLine", !.id = 0, !.name = <<"A">>],
          [NoReq EXCEPT !.op = "UpdateLine", !.id = 1, !.name = <<SP>>]}

GetLineRequests ==
    {[NoReq EXCEPT !.op = "GetLine", !.id = i] : i \in IdInputs}

DeleteLineRequests ==
    {[NoReq EXCEPT !.op = "DeleteLine", !.id = i] : i \in IdInputs}

CreateStationRequests ==
    {[NoReq EXCEPT !.op = "CreateStation", !.name = ns[1], !.line_id = i, !.status = ns[2]] :
        ns \in {<<<<"X">>, <<>>>>, <<<<"Y">>, <<>>>>, <<<<"X">>, closed>>},
        i \in 1 .. MaxId}
    \cup {[NoReq EXCEPT !.op = "CreateStation", !.name = <<>>, !.line_id = 1],
          [NoReq EXCEPT !.op = "CreateStation", !.name = <<"X">>, !.line_id = 0],
          [NoReq EXCEPT !.op = "CreateStation", !.name = <<"X">>, !.line_id = 1,
                        !.status = <<"bogus">>],
          [NoReq EXCEPT !.op = "CreateStation", !.name = <<"X">>, !.line_id = 1,
                        !.status = <<SP>>],
          [NoReq EXCEPT !.op = "CreateStation", !.name = <<"X">>, !.line_id = 1,
                        !.status = active]}

\* an absent name or status is the empty string
UpdateStationRequests ==
    {[NoReq EXCEPT !.op = "UpdateStation", !.id = i, !.name = ns[1], !.status = ns[2]] :
        ns \in {<<<<"Y">>, <<>>>>, <<<<>>, closed>>, <<<<"X">>, closed>>},
        i \in 1 .. MaxId}
    \cup {[NoReq EXCEPT !.op = "UpdateStation", !.id = 0, !.name = <<"X">>],
          [NoReq EXCEPT !.op = "UpdateStation", !.id = 1],
          [NoReq EXCEPT !.op = "UpdateStation", !.id = 2, !.name = <<SP>>],
          [NoReq EXCEPT !.op = "UpdateStation", !.id = 1, !.status = <<"bogus">>]}

GetStationRequests ==
    {[NoReq EXCEPT !.op = "GetStation", !.id = i] : i \in IdInputs}

DeleteStationRequests ==
    {[NoReq EXCEPT !.op = "DeleteStation", !.id = i] : i \in IdInputs}

\* ListLines takes no argument
ListLinesRequests == {[NoReq EXCEPT !.op = "ListLines"]}

\* req.LineId == "": no line is named
NoLineId == -1

ListStationsRequests ==
    {[NoReq EXCEPT !.op = "ListStations", !.line_id = i] : i \in {NoLineId} \cup IdInputs}

\* limits a caller may ask for
LimitInputs == {-1, 0, 1, 2, MaxLimit, MaxLimit + 1}

TopBreakdownsRequests ==
    {[NoReq EXCEPT !.op = "GetTopBreakdowns", !.scope = sc, !.limit = n] :
        sc \in {<<"line">>, <<"station">>, <<SP, "LINE">>, <<"bogus">>}, n \in LimitInputs}

\* GetMTBF takes no argument
MTBFRequests == {[NoReq EXCEPT !.op = "GetMTBF"]}

\* every limit without a filter, and every pair of filters with limits 0 and 1
RecentDisruptionsRequests ==
    {[NoReq EXCEPT !.op = "GetRecentDisruptions", !.limit = n] : n \in LimitInputs}
    \cup {[NoReq EXCEPT !.op = "GetRecentDisruptions", !.line = ln, !.station = st,
                        !.limit = n] :
            ln \in {<<>>, <<"A">>, <<SP, "A", SP>>, <<SP>>},
            st \in {<<>>, <<"X">>, <<SP>>},
            n \in {0, 1}}

\* a name of n letters
Long(n) == [i \in 1 .. n |-> "a"]

\* names at the edges of the length rule
NameInputs ==
    {<<>>, <<SP>>, <<"A">>, <<SP, "A", SP>>, Long(MaxNameLen), Long(MaxNameLen + 1),
     <<SP>> \o Long(MaxNameLen) \o <<SP>>, <<SP>> \o Long(MaxNameLen + 1)}

\* requests at the edges of every validation rule
ValidationRequests ==
    {[NoReq EXCEPT !.op = "CreateLine", !.name = n] : n \in NameInputs}
    \cup {[NoReq EXCEPT !.op = "UpdateLine", !.id = i, !.name = n] :
            i \in {0, 1}, n \in NameInputs}
    \cup {[NoReq EXCEPT !.op = "CreateStation", !.name = n, !.line_id = i, !.status = st] :
            n \in NameInputs, i \in {0, 1},
            st \in {<<>>, active, <<SP, "closed">>, <<"bogus">>}}
    \cup {[NoReq EXCEPT !.op = "UpdateStation", !.id = i, !.name = n, !.status = st] :
            i \in {0, 1}, n \in NameInputs, st \in {<<>>, closed, <<"bogus">>}}
    \cup {[NoReq EXCEPT !.op = "CreateIncident", !.line = ln, !.station = st, !.ts = 1,
                        !.duration_minutes = 10, !.incident_type = "mechanical"] :
            ln \in NameInputs, st \in NameInputs}
    \cup {[NoReq EXCEPT !.op = "CreateIncident", !.line = <<"A">>, !.station = <<"X">>,
                        !.ts = t, !.duration_minutes = d, !.incident_type = ty] :
            t \in {0, 1, Now, Now + 1},
            d \in {-1, 0, 1, MaxDuration, MaxDuration + 1},
            ty \in validTypes \cup {"", "bogus"}}
    \cup TopBreakdownsRequests

\* a parser that takes every string for a UUID
NoParseError(s) == FALSE

\* uuid.Parse: err != nil
ParseError(s) == s < 1

\* a status.Error(code, msg) response; err and cause are the repository error behind it
\* a handler that answers a failure of the store as a success
Swallow(r, code, msg, err, cause) ==
    [NoRet EXCEPT !.req = r, !.code = IF err = "ErrDatabaseError" THEN "OK" ELSE code,
                  !.msg = msg, !.err = err, !.cause = cause]

Fail(r, code, msg, err, cause) ==
    [NoRet EXCEPT !.req = r, !.code = code, !.msg = msg, !.err = err, !.cause = cause]

Ok(r) == [NoRet EXCEPT !.req = r, !.code = "OK"]

-----------------------------------------------------------------------------
(* The store: tables, constraints, locks *)

\* SELECT ... FROM lines WHERE name = $1
LineByName(name) == {l \in lines : l.name = name}

\* a lookup that takes any line for the one asked for
AnyLine(id) == lines

\* SELECT ... FROM lines WHERE id = $1
LineById(id) == {l \in lines : l.id = id}

\* a station lookup by name alone
StationByName(name, lineID) == {s \in stations : s.name = name}

\* SELECT ... FROM stations WHERE name = $1 AND line_id = $2
StationByKey(name, lineID) == {s \in stations : s.name = name /\ s.line_id = lineID}

\* SELECT ... FROM stations s JOIN lines l ON s.line_id = l.id WHERE s.id = $1
StationById(id) == {s \in stations : s.id = id /\ LineById(s.line_id) # {}}

\* incidents UNIQUE(station_id, line_id, ts): the row in conflict
IncidentByKey(stationID, lineID, ts) ==
    {i \in incidents : i.station_id = stationID /\ i.line_id = lineID /\ i.ts = ts}

\* a lines table without the UNIQUE constraint on name
NoLineNameTaken(name, id) == FALSE

\* a table of lines without the UNIQUE constraint on the name
NoNameTaken(name, id) == FALSE

\* lines.name UNIQUE: another row already bears the name
LineNameTaken(name, id) == \E l \in lines : l.name = name /\ l.id # id

\* stations UNIQUE(name, line_id): another row already bears the pair
StationKeyTaken(name, lineID, id) ==
    \E s \in stations : s.name = name /\ s.line_id = lineID /\ s.id # id

\* CHECK (LENGTH(TRIM(name)) > 0 AND LENGTH(name) <= 100)
NameCheck(name) == Len(TrimSpace(name)) > 0 /\ Len(name) <= MaxNameLen

\* an uncommitted insert of the same unique key by another transaction: the
\* statement waits for that transaction to end
LineInsertPending(w, name) ==
    \E o \in Workers \ {w} : tx[o].tbl = "lines" /\ tx[o].name = name

StationInsertPending(w, name, lineID) ==
    \E o \in Workers \ {w} :
        tx[o].tbl = "stations" /\ tx[o].name = name /\ tx[o].line_id = lineID

\* an uncommitted station insert holds a key-share lock on its line row
LineRowLocked(w, id) ==
    \E o \in Workers \ {w} : tx[o].tbl = "stations" /\ tx[o].line_id = id

\* a delete of a line that leaves the stations of the line behind
StationsKept(id) == stations

\* DELETE FROM lines WHERE id = $1, with ON DELETE CASCADE
LinesAfterDelete(id) == {l \in lines : l.id # id}
StationsAfterLineDelete(id) == {s \in stations : s.line_id # id}
IncidentsAfterLineDelete(id) ==
    {i \in incidents : i.line_id # id
                       /\ \A s \in stations : s.id = i.station_id => s.line_id # id}

\* DELETE FROM stations WHERE id = $1, with ON DELETE CASCADE
StationsAfterDelete(id) == {s \in stations : s.id # id}
IncidentsAfterStationDelete(id) == {i \in incidents : i.station_id # id}

-----------------------------------------------------------------------------
(* Calls *)

\* the worker is about to issue the statement `label`; no response is waiting to
\* be handed over
At(w, label) == ret = NoRet /\ pc[w] = label

\* the worker is free
Idle(w) == At(w, "idle")

\* a call returns: the worker is free again
Return(w, resp) ==
    /\ ret' = resp
    /\ pc' = [pc EXCEPT ![w] = "idle"]
    /\ req' = [req EXCEPT ![w] = NoReq]
    /\ line' = [line EXCEPT ![w] = 0]
    /\ station' = [station EXCEPT ![w] = 0]
    /\ current' = [current EXCEPT ![w] = NoCurrent]
    /\ UNCHANGED <<lastCreateLine, submitted, atReturn, pool>>

\* a call moves on to the statement `label`
Goto(w, label) ==
    /\ ret' = NoRet
    /\ pc' = [pc EXCEPT ![w] = label]
    /\ UNCHANGED <<lastCreateLine, submitted, atReturn, pool>>

\* the response reaches the caller
Handover ==
    /\ ret # NoRet
    /\ ret' = NoRet
    /\ UNCHANGED <<lines, stations, incidents, nextId, pc, req, line, station, current, tx>>

Deliver == Handover /\ UNCHANGED <<lastCreateLine, submitted, atReturn, pool>>

\* the same, with a record of the incident rows the service reported
DeliverIncident ==
    /\ Handover
    /\ submitted' =
         IF ret.req.op = "CreateIncident" /\ ret.code = "OK"
         THEN submitted \cup {[station_id |-> ret.station_id, line_id |-> ret.line_id,
                               ts |-> ret.req.ts, id |-> ret.id,
                               duration_minutes |-> ret.duration_minutes]}
         ELSE submitted
    /\ UNCHANGED <<lastCreateLine, atReturn, pool>>

\* the same, with a record of the id CreateLine last reported for each name
DeliverLine ==
    /\ Handover
    /\ lastCreateLine' =
         IF ret.req.op = "CreateLine" /\ ret.code = "OK"
         THEN [lastCreateLine EXCEPT ![ret.name] = ret.id]
         ELSE IF ret.req.op = "DeleteLine" /\ ret.code = "OK"
         THEN [n \in LineNames |-> IF lastCreateLine[n] = ret.req.id THEN 0
                                   ELSE lastCreateLine[n]]
         ELSE lastCreateLine
    /\ UNCHANGED <<submitted, atReturn, pool>>

\* the tables
Tables == [lines |-> lines, stations |-> stations, incidents |-> incidents]

\* the same, with a record of the tables the call left behind
DeliverTables ==
    /\ Handover
    /\ atReturn' = Tables
    /\ UNCHANGED pool
    /\ UNCHANGED <<lastCreateLine, submitted>>

Init ==
    /\ lines = {}
    /\ stations = {}
    /\ incidents = {}
    /\ nextId = 1
    /\ pc = [w \in Workers |-> "idle"]
    /\ req = [w \in Workers |-> NoReq]
    /\ line = [w \in Workers |-> 0]
    /\ station = [w \in Workers |-> 0]
    /\ current = [w \in Workers |-> NoCurrent]
    /\ tx = [w \in Workers |-> NoTx]
    /\ ret = NoRet
    /\ lastCreateLine = [n \in LineNames |-> 0]
    /\ submitted = {}
    /\ atReturn = [lines |-> {}, stations |-> {}, incidents |-> {}]
    /\ pool = NoCalls

\* Stores for the analytics queries: lines A and B, station X on each of them
\* and station Y on A, and up to MaxIncidents incidents at these stations
QueryLines == {[id |-> 1, name |-> <<"A">>], [id |-> 2, name |-> <<"B">>]}

QueryStations ==
    {[id |-> 3, name |-> <<"X">>, line_id |-> 1, status |-> active],
     [id |-> 4, name |-> <<"X">>, line_id |-> 2, status |-> active],
     [id |-> 5, name |-> <<"Y">>, line_id |-> 1, status |-> active]}

QueryIncidents ==
    {[id |-> 5 + Now * (st.id - 3) + t, station_id |-> st.id, line_id |-> st.line_id,
      ts |-> t, duration_minutes |-> 10, incident_type |-> "mechanical"] :
        st \in QueryStations, t \in 1 .. Now}

InitQueries ==
    /\ lines = QueryLines
    /\ stations = QueryStations
    /\ incidents \in {S \in SUBSET QueryIncidents : Cardinality(S) <= MaxIncidents}
    /\ nextId = 6 + 3 * Now
    /\ pc = [w \in Workers |-> "idle"]
    /\ req = [w \in Workers |-> NoReq]
    /\ line = [w \in Workers |-> 0]
    /\ station = [w \in Workers |-> 0]
    /\ current = [w \in Workers |-> NoCurrent]
    /\ tx = [w \in Workers |-> NoTx]
    /\ ret = NoRet
    /\ lastCreateLine = [n \in LineNames |-> 0]
    /\ submitted = {}
    /\ atReturn = [lines |-> QueryLines, stations |-> QueryStations, incidents |-> incidents]
    /\ pool = NoCalls

-----------------------------------------------------------------------------
(* Service.CreateIncident: validate, GetOrCreateLine, GetOrCreateStation,  *)
(* Repository.CreateIncident                                               *)

\* Service.validateIncidentRequest: the error text, "" for nil
\* a validation that looks at the two names only
validateNamesOnly(r) ==
    IF TrimSpace(r.line) = <<>> THEN "line must not be empty"
    ELSE IF Len(TrimSpace(r.line)) > MaxNameLen THEN "line must not exceed 100 characters"
    ELSE IF TrimSpace(r.station) = <<>> THEN "station must not be empty"
    ELSE IF Len(TrimSpace(r.station)) > MaxNameLen
         THEN "station must not exceed 100 characters"
    ELSE ""

validateIncidentRequest(r) ==
    IF TrimSpace(r.line) = <<>> THEN "line must not be empty"
    ELSE IF Len(TrimSpace(r.line)) > MaxNameLen THEN "line must not exceed 100 characters"
    ELSE IF TrimSpace(r.station) = <<>> THEN "station must not be empty"
    ELSE IF Len(TrimSpace(r.station)) > MaxNameLen
         THEN "station must not exceed 100 characters"
    ELSE IF r.ts = 0 THEN "timestamp is required"
    ELSE IF r.ts > Now THEN "timestamp cannot be in the future"
    ELSE IF r.duration_minutes < 0 \/ r.duration_minutes > MaxDuration
         THEN "duration_minutes must be between 0 and 1440"
    ELSE IF r.incident_type \notin validTypes
         THEN "incident_type must be one of: mechanical, power, signal, weather, other"
    ELSE ""

\* Service.CreateIncident up to the first statement of Repository.GetOrCreateLine:
\* validation, BeginTxx, SELECT ... FROM lines WHERE name = $1
CreateIncident_Start(w) ==
    /\ Idle(w)
    /\ \E r \in CreateIncidentRequests :
        LET found == LineByName(TrimSpace(r.line))
        IN  IF validateIncidentRequest(r) # ""
            THEN Return(w, Fail(r, "InvalidArgument", validateIncidentRequest(r), "nil", ""))
            ELSE /\ req' = [req EXCEPT ![w] = r]
                 /\ UNCHANGED <<station, current>>
                 /\ IF found # {}
                    THEN \* return &line, nil (the deferred Rollback ends the transaction)
                         /\ Goto(w, "GetOrCreateStation.select")
                         /\ line' = [line EXCEPT ![w] = (CHOOSE l \in found : TRUE).id]
                    ELSE /\ Goto(w, "GetOrCreateLine.insert")
                         /\ UNCHANGED line
    /\ UNCHANGED <<lines, stations, incidents, nextId, tx>>

\* Repository.GetOrCreateLine: INSERT INTO lines (name) VALUES ($1) RETURNING ...
GetOrCreateLine_Insert(w) ==
    /\ At(w, "GetOrCreateLine.insert")
    /\ LET name == TrimSpace(req[w].line)
           cause == IF LineNameTaken(name, 0) THEN "unique_violation"
                    ELSE IF ~NameCheck(name) THEN "check_violation"
                    ELSE ""
       IN  /\ ~LineInsertPending(w, name)
           /\ IF cause # ""
              THEN /\ Return(w, Fail(req[w], "Internal", "failed to process line",
                                     "ErrDatabaseError", cause))
                   /\ UNCHANGED <<nextId, tx>>
              ELSE /\ nextId <= MaxId
                   /\ Goto(w, "GetOrCreateLine.commit")
                   /\ tx' = [tx EXCEPT ![w] = [NoTx EXCEPT !.tbl = "lines", !.id = nextId,
                                                           !.name = name]]
                   /\ nextId' = nextId + 1
                   /\ UNCHANGED <<req, line, station, current>>
    /\ UNCHANGED <<lines, stations, incidents>>

\* Repository.GetOrCreateLine: tx.Commit(), return &line, nil
GetOrCreateLine_Commit(w) ==
    /\ At(w, "GetOrCreateLine.commit")
    /\ lines' = lines \cup {[id |-> tx[w].id, name |-> tx[w].name]}
    /\ line' = [line EXCEPT ![w] = tx[w].id]
    /\ tx' = [tx EXCEPT ![w] = NoTx]
    /\ Goto(w, "GetOrCreateStation.select")
    /\ UNCHANGED <<stations, incidents, nextId, req, station, current>>

\* Repository.GetOrCreateStation: BeginTxx, SELECT ... WHERE name = $1 AND line_id = $2
GetOrCreateStation_Select(w) ==
    /\ At(w, "GetOrCreateStation.select")
    /\ LET found == StationByKey(TrimSpace(req[w].station), line[w])
       IN  IF found # {}
           THEN /\ Goto(w, "CreateIncident.insert")
                /\ station' = [station EXCEPT ![w] = (CHOOSE s \in found : TRUE).id]
           ELSE /\ Goto(w, "GetOrCreateStation.insert")
                /\ UNCHANGED station
    /\ UNCHANGED <<lines, stations, incidents, nextId, req, line, current, tx>>

\* Repository.GetOrCreateStation: INSERT INTO stations (name, line_id) VALUES ($1, $2)
GetOrCreateStation_Insert(w) ==
    /\ At(w, "GetOrCreateStation.insert")
    /\ LET name == TrimSpace(req[w].station)
           cause == IF StationKeyTaken(name, line[w], 0) THEN "unique_violation"
                    ELSE IF ~NameCheck(name) THEN "check_violation"
                    ELSE IF LineById(line[w]) = {} THEN "foreign_key_violation"
                    ELSE ""
       IN  /\ ~StationInsertPending(w, name, line[w])
           /\ IF cause # ""
              THEN /\ Return(w, Fail(req[w], "Internal", "failed to process station",
                                     "ErrDatabaseError", cause))
                   /\ UNCHANGED <<nextId, tx>>
              ELSE /\ nextId <= MaxId
                   /\ Goto(w, "GetOrCreateStation.commit")
                   /\ tx' = [tx EXCEPT ![w] = [NoTx EXCEPT !.tbl = "stations", !.id = nextId,
                                                           !.name = name, !.line_id = line[w]]]
                   /\ nextId' = nextId + 1
                   /\ UNCHANGED <<req, line, station, current>>
    /\ UNCHANGED <<lines, stations, incidents>>

\* Repository.GetOrCreateStation: tx.Commit(), return &station, nil
GetOrCreateStation_Commit(w) ==
    /\ At(w, "GetOrCreateStation.commit")
    /\ stations' = stations \cup {[id |-> tx[w].id, name |-> tx[w].name,
                                   line_id |-> tx[w].line_id, status |-> active]}
    /\ station' = [station EXCEPT ![w] = tx[w].id]
    /\ tx' = [tx EXCEPT ![w] = NoTx]
    /\ Goto(w, "CreateIncident.insert")
    /\ UNCHANGED <<lines, incidents, nextId, req, line, current>>

\* a plain INSERT INTO incidents, without the ON CONFLICT clause
InsertIncident(stationID, lineID, ts, durationMinutes, incidentType, id) ==
    [id |-> id, station_id |-> stationID, line_id |-> lineID, ts |-> ts,
     duration_minutes |-> durationMinutes, incident_type |-> incidentType]

\* INSERT INTO incidents ... ON CONFLICT (station_id, line_id, ts) DO UPDATE
\* SET duration_minutes = EXCLUDED.duration_minutes, incident_type = EXCLUDED.incident_type:
\* the row the statement returns
UpsertIncident(stationID, lineID, ts, durationMinutes, incidentType, id) ==
    LET old == IncidentByKey(stationID, lineID, ts)
    IN  [id |-> IF old # {} THEN (CHOOSE i \in old : TRUE).id ELSE id,
         station_id |-> stationID, line_id |-> lineID, ts |-> ts,
         duration_minutes |-> durationMinutes, incident_type |-> incidentType]

\* Repository.CreateIncident, and the response of Service.CreateIncident
CreateIncident_Insert(w) ==
    /\ At(w, "CreateIncident.insert")
    /\ LET r == req[w]
           cause == IF {s \in stations : s.id = station[w]} = {} \/ LineById(line[w]) = {}
                    THEN "foreign_key_violation"
                    ELSE IF r.incident_type \notin validTypes THEN "check_violation"
                    ELSE ""
           row == UpsertIncident(station[w], line[w], r.ts, r.duration_minutes,
                                 r.incident_type, nextId)
       IN  IF cause # ""
           THEN /\ Return(w, Fail(r, "Internal", "failed to create incident",
                                  "ErrDatabaseError", cause))
                /\ UNCHANGED <<incidents, nextId>>
           ELSE /\ row.id = nextId => nextId <= MaxId
                /\ incidents' = {i \in incidents : i.id # row.id} \cup {row}
                /\ nextId' = IF row.id = nextId THEN nextId + 1 ELSE nextId
                /\ Return(w, [Ok(r) EXCEPT !.id = row.id, !.line_id = line[w],
                                           !.station_id = station[w],
                                           !.duration_minutes = row.duration_minutes,
                                           !.incident_type = row.incident_type])
    /\ UNCHANGED <<lines, stations, tx>>

-----------------------------------------------------------------------------
(* Lines *)

\* a plain INSERT INTO lines, without the ON CONFLICT clause
InsertLine(name, id) == [id |-> id, name |-> name]

\* INSERT INTO lines (name) VALUES ($1) ON CONFLICT (name) DO UPDATE
\* SET name = EXCLUDED.name RETURNING id, name: the row the statement returns
UpsertLine(name, id) ==
    LET old == LineByName(name)
    IN  [id |-> IF old # {} THEN (CHOOSE l \in old : TRUE).id ELSE id, name |-> name]

\* Service.CreateLine: the validation error, "" for none
CreateLine_Validate(r) ==
    IF TrimSpace(r.name) = <<>> THEN "name must not be empty"
    ELSE IF Len(TrimSpace(r.name)) > MaxNameLen THEN "name must not exceed 100 characters"
    ELSE ""

\* Service.CreateLine and Repository.CreateLine
CreateLine(w) ==
    /\ Idle(w)
    /\ \E r \in CreateLineRequests :
        LET name == TrimSpace(r.name)
            row == UpsertLine(name, nextId)
        IN  IF CreateLine_Validate(r) # ""
            THEN /\ Return(w, Fail(r, "InvalidArgument", CreateLine_Validate(r), "nil", ""))
                 /\ UNCHANGED <<lines, nextId>>
            ELSE /\ ~LineInsertPending(w, name)
                 /\ row.id = nextId => nextId <= MaxId
                 /\ lines' = {l \in lines : l.id # row.id} \cup {row}
                 /\ nextId' = IF row.id = nextId THEN nextId + 1 ELSE nextId
                 /\ Return(w, [Ok(r) EXCEPT !.id = row.id, !.name = row.name])
    /\ UNCHANGED <<stations, incidents, tx>>

\* a GetLine that writes: the row asked for is made when the table has none
GetLineOrCreate(w) ==
    /\ Idle(w)
    /\ \E r \in GetLineRequests :
        IF ParseError(r.id)
        THEN /\ Return(w, Fail(r, "InvalidArgument", "invalid line ID", "nil", ""))
             /\ UNCHANGED lines
        ELSE IF LineById(r.id) = {}
        THEN /\ Return(w, [Ok(r) EXCEPT !.id = r.id, !.name = <<"A">>])
             /\ lines' = lines \cup {[id |-> r.id, name |-> <<"A">>]}
        ELSE /\ Return(w, [Ok(r) EXCEPT !.id = r.id,
                                        !.name = (CHOOSE l \in LineById(r.id) : TRUE).name])
             /\ UNCHANGED lines
    /\ UNCHANGED <<stations, incidents, nextId, tx>>

\* Service.GetLine and Repository.GetLine
GetLine(w) ==
    /\ Idle(w)
    /\ \E r \in GetLineRequests :
        IF ParseError(r.id)
        THEN Return(w, Fail(r, "InvalidArgument", "invalid line ID", "nil", ""))
        ELSE IF LineById(r.id) = {}
        THEN Return(w, Fail(r, "NotFound", "line not found", "ErrNotFound", ""))
        ELSE Return(w, [Ok(r) EXCEPT !.id = r.id,
                                     !.name = (CHOOSE l \in LineById(r.id) : TRUE).name])
    /\ UNCHANGED <<lines, stations, incidents, nextId, tx>>

\* Service.UpdateLine: the validation error, "" for none
UpdateLine_Validate(r) ==
    IF ParseError(r.id) THEN "invalid line ID"
    ELSE IF TrimSpace(r.name) = <<>> THEN "name must not be empty"
    ELSE IF Len(TrimSpace(r.name)) > MaxNameLen THEN "name must not exceed 100 characters"
    ELSE ""

\* Service.UpdateLine and Repository.UpdateLine
UpdateLine(w) ==
    /\ Idle(w)
    /\ \E r \in UpdateLineRequests :
        LET name == TrimSpace(r.name)
        IN  IF UpdateLine_Validate(r) # ""
            THEN /\ Return(w, Fail(r, "InvalidArgument", UpdateLine_Validate(r), "nil", ""))
                 /\ UNCHANGED lines
            ELSE IF LineById(r.id) = {}
            THEN /\ Return(w, Fail(r, "NotFound", "line not found", "ErrNotFound", ""))
                 /\ UNCHANGED lines
            ELSE /\ ~LineInsertPending(w, name)
                 /\ IF LineNameTaken(name, r.id)
                    THEN /\ Return(w, Fail(r, "Internal", "failed to update line",
                                           "ErrDatabaseError", "unique_violation"))
                         /\ UNCHANGED lines
                    ELSE /\ lines' = LinesAfterDelete(r.id) \cup {[id |-> r.id, name |-> name]}
                         /\ Return(w, [Ok(r) EXCEPT !.id = r.id, !.name = name])
    /\ UNCHANGED <<stations, incidents, nextId, tx>>

\* Service.DeleteLine and Repository.DeleteLine
DeleteLine(w) ==
    /\ Idle(w)
    /\ \E r \in DeleteLineRequests :
        IF ParseError(r.id)
        THEN /\ Return(w, Fail(r, "InvalidArgument", "invalid line ID", "nil", ""))
             /\ UNCHANGED <<lines, stations, incidents>>
        ELSE IF LineById(r.id) = {}
        THEN /\ Return(w, Fail(r, "NotFound", "line not found", "ErrNotFound", ""))
             /\ UNCHANGED <<lines, stations, incidents>>
        ELSE /\ ~LineRowLocked(w, r.id)
             /\ lines' = LinesAfterDelete(r.id)
             /\ stations' = StationsAfterLineDelete(r.id)
             /\ incidents' = IncidentsAfterLineDelete(r.id)
             /\ Return(w, Ok(r))
    /\ UNCHANGED <<nextId, tx>>

-----------------------------------------------------------------------------
(* Stations *)

\* the station row as the service reports it
StationResponse(r, s) ==
    [Ok(r) EXCEPT !.id = s.id, !.name = s.name, !.line_id = s.line_id, !.status = s.status]

\* a status taken as given, with no default
StatusAsGiven(status) == TrimSpace(status)

\* Service.CreateStation: statusVal
StatusOrDefault(status) ==
    IF TrimSpace(status) = <<>> THEN active ELSE TrimSpace(status)

\* Service.CreateStation: the validation error, "" for none
CreateStation_Validate(r) ==
    IF TrimSpace(r.name) = <<>> THEN "name must not be empty"
    ELSE IF Len(TrimSpace(r.name)) > MaxNameLen THEN "name must not exceed 100 characters"
    ELSE IF ParseError(r.line_id) THEN "invalid line ID"
    ELSE IF StatusOrDefault(r.status) \notin validStatuses
         THEN "status must be one of: active, inactive, maintenance, closed"
    ELSE ""

\* Service.CreateStation up to the first statement of Repository.CreateStation:
\* validation, SELECT EXISTS(SELECT 1 FROM lines WHERE id = $1)
CreateStation_Start(w) ==
    /\ Idle(w)
    /\ \E r \in CreateStationRequests :
        IF CreateStation_Validate(r) # ""
        THEN Return(w, Fail(r, "InvalidArgument", CreateStation_Validate(r), "nil", ""))
        ELSE IF LineById(r.line_id) = {}
        THEN Return(w, Fail(r, "NotFound", "line not found", "ErrNotFound", ""))
        ELSE /\ Goto(w, "CreateStation.insert")
             /\ req' = [req EXCEPT ![w] = r]
             /\ UNCHANGED <<line, station, current>>
    /\ UNCHANGED <<lines, stations, incidents, nextId, tx>>

\* a plain INSERT INTO stations, without the ON CONFLICT clause
InsertStation(name, lineID, status, id) ==
    [id |-> id, name |-> name, line_id |-> lineID, status |-> status]

\* an insert that leaves the row of an existing key as it is (DO NOTHING)
KeepStation(name, lineID, status, id) ==
    LET old == StationByKey(name, lineID)
    IN  IF old # {} THEN CHOOSE s \in old : TRUE
        ELSE [id |-> id, name |-> name, line_id |-> lineID, status |-> status]

\* INSERT INTO stations (name, line_id, status) VALUES ($1, $2, $3)
\* ON CONFLICT (name, line_id) DO UPDATE SET status = EXCLUDED.status: the row returned
UpsertStation(name, lineID, status, id) ==
    LET old == StationByKey(name, lineID)
    IN  [id |-> IF old # {} THEN (CHOOSE s \in old : TRUE).id ELSE id,
         name |-> name, line_id |-> lineID, status |-> status]

\* Repository.CreateStation: the upsert
CreateStation_Insert(w) ==
    /\ At(w, "CreateStation.insert")
    /\ LET r == req[w]
           name == TrimSpace(r.name)
           statusVal == StatusOrDefault(r.status)
           row == UpsertStation(name, r.line_id, statusVal, nextId)
           cause == IF ~NameCheck(name) \/ statusVal \notin validStatuses
                    THEN "check_violation"
                    ELSE IF LineById(r.line_id) = {} THEN "foreign_key_violation"
                    ELSE ""
       IN  /\ ~StationInsertPending(w, name, r.line_id)
           /\ IF cause # ""
              THEN /\ Return(w, Fail(r, "Internal", "failed to create station",
                                     "ErrDatabaseError", cause))
                   /\ UNCHANGED <<stations, nextId>>
              ELSE /\ row.id = nextId => nextId <= MaxId
                   /\ stations' = {s \in stations : s.id # row.id} \cup {row}
                   /\ nextId' = IF row.id = nextId THEN nextId + 1 ELSE nextId
                   /\ Return(w, StationResponse(r, row))
    /\ UNCHANGED <<lines, incidents, tx>>

\* Service.UpdateStation: the validation error, "" for none; name and statusVal
\* are nil for an empty field
UpdateStation_Validate(r) ==
    IF ParseError(r.id) THEN "invalid station ID"
    ELSE IF r.name # <<>> /\ Len(TrimSpace(r.name)) > MaxNameLen
         THEN "name must not exceed 100 characters"
    ELSE IF r.status # <<>> /\ TrimSpace(r.status) \notin validStatuses
         THEN "status must be one of: active, inactive, maintenance, closed"
    ELSE IF r.name = <<>> /\ r.status = <<>>
         THEN "at least one field (name or status) must be provided"
    ELSE ""

\* Service.UpdateStation up to the first statement of Repository.UpdateStation:
\* validation, r.GetStation(ctx, id)
UpdateStation_Start(w) ==
    /\ Idle(w)
    /\ \E r \in UpdateStationRequests :
        LET found == StationById(r.id)
        IN  IF UpdateStation_Validate(r) # ""
            THEN Return(w, Fail(r, "InvalidArgument", UpdateStation_Validate(r), "nil", ""))
            ELSE IF found = {}
            THEN Return(w, Fail(r, "NotFound", "station not found", "ErrNotFound", ""))
            ELSE /\ Goto(w, "UpdateStation.update")
                 /\ req' = [req EXCEPT ![w] = r]
                 /\ current' = [current EXCEPT ![w] =
                                  [name |-> (CHOOSE s \in found : TRUE).name,
                                   status |-> (CHOOSE s \in found : TRUE).status]]
                 /\ UNCHANGED <<line, station>>
    /\ UNCHANGED <<lines, stations, incidents, nextId, tx>>

\* Repository.UpdateStation: newName, newStatus merged from current and the request
MergeStation(cur, name, status) ==
    [name |-> IF name # <<>> /\ TrimSpace(name) # <<>> THEN TrimSpace(name) ELSE cur.name,
     status |-> IF status # <<>> /\ TrimSpace(status) # <<>> THEN TrimSpace(status)
                ELSE cur.status]

\* Repository.UpdateStation: UPDATE stations SET name = $1, status = $2 WHERE id = $3
UpdateStation_Update(w) ==
    /\ At(w, "UpdateStation.update")
    /\ LET r == req[w]
           new == MergeStation(current[w], r.name, r.status)
           old == {s \in stations : s.id = r.id}
           lineID == (CHOOSE s \in old : TRUE).line_id
           row == [id |-> r.id, name |-> new.name, line_id |-> lineID,
                   status |-> new.status]
       IN  IF old = {}
           THEN /\ Return(w, Fail(r, "NotFound", "station not found", "ErrNotFound", ""))
                /\ UNCHANGED stations
           ELSE /\ ~StationInsertPending(w, new.name, lineID)
                /\ IF StationKeyTaken(new.name, lineID, r.id)
                   THEN /\ Return(w, Fail(r, "Internal", "failed to update station",
                                          "ErrDatabaseError", "unique_violation"))
                        /\ UNCHANGED stations
                   ELSE IF ~NameCheck(new.name) \/ new.status \notin validStatuses
                   THEN /\ Return(w, Fail(r, "Internal", "failed to update station",
                                          "ErrDatabaseError", "check_violation"))
                        /\ UNCHANGED stations
                   ELSE /\ stations' = StationsAfterDelete(r.id) \cup {row}
                        /\ Return(w, StationResponse(r, row))
    /\ UNCHANGED <<lines, incidents, nextId, tx>>

\* Service.GetStation and Repository.GetStation
GetStation(w) ==
    /\ Idle(w)
    /\ \E r \in GetStationRequests :
        IF ParseError(r.id)
        THEN Return(w, Fail(r, "InvalidArgument", "invalid station ID", "nil", ""))
        ELSE IF StationById(r.id) = {}
        THEN Return(w, Fail(r, "NotFound", "station not found", "ErrNotFound", ""))
        ELSE Return(w, StationResponse(r, CHOOSE st \in StationById(r.id) : TRUE))
    /\ UNCHANGED <<lines, stations, incidents, nextId, tx>>

\* Service.DeleteStation and Repository.DeleteStation
DeleteStation(w) ==
    /\ Idle(w)
    /\ \E r \in DeleteStationRequests :
        IF ParseError(r.id)
        THEN /\ Return(w, Fail(r, "InvalidArgument", "invalid station ID", "nil", ""))
             /\ UNCHANGED <<stations, incidents>>
        ELSE IF {s \in stations : s.id = r.id} = {}
        THEN /\ Return(w, Fail(r, "NotFound", "station not found", "ErrNotFound", ""))
             /\ UNCHANGED <<stations, incidents>>
        ELSE /\ stations' = StationsAfterDelete(r.id)
             /\ incidents' = IncidentsAfterStationDelete(r.id)
             /\ Return(w, Ok(r))
    /\ UNCHANGED <<lines, nextId, tx>>

-----------------------------------------------------------------------------
(* Analytics queries *)

\* min of two numbers
Min(a, b) == IF a <= b THEN a ELSE b

\* the orders in which the rows of S can come out
RECURSIVE Perms(_)
Perms(S) ==
    IF S = {} THEN {<<>>}
    ELSE UNION {{<<x>> \o p : p \in Perms(S \ {x})} : x \in S}

\* a query without its LIMIT clause
NoLimit(rows, n) == rows

\* LIMIT n
Limit(rows, n) == SubSeq(rows, 1, Min(n, Len(rows)))

\* limit := req.Limit; if limit <= 0 { limit = def }; if limit > 100 { limit = 100 }
EffectiveLimit(limit, def) ==
    LET l == IF limit <= 0 THEN def ELSE limit
    IN  IF l > MaxLimit THEN MaxLimit ELSE l

\* SELECT l.name, COUNT(i.id) FROM lines l LEFT JOIN incidents i ON l.id = i.line_id
\* GROUP BY l.name
BreakdownsByLine ==
    {[name |-> n,
      count |-> Cardinality({<<l, i>> \in lines \X incidents :
                                l.name = n /\ l.id = i.line_id})] :
        n \in {l.name : l \in lines}}

\* the same query grouped by station row (GROUP BY s.id, s.name)
BreakdownsByStationRow ==
    {[name |-> st.name,
      count |-> Cardinality({i \in incidents : i.station_id = st.id})] : st \in stations}

\* SELECT s.name, COUNT(i.id) FROM stations s LEFT JOIN incidents i
\* ON s.id = i.station_id GROUP BY s.name
BreakdownsByStation ==
    {[name |-> n,
      count |-> Cardinality({<<st, i>> \in stations \X incidents :
                                st.name = n /\ st.id = i.station_id})] :
        n \in {st.name : st \in stations}}

\* a query without its ORDER BY clause
AnyOrder(S) == Perms(S)

\* ORDER BY count DESC: rows of equal count come in any order
OrderByCountDesc(S) ==
    {f \in Perms(S) : \A i \in 1 .. Cardinality(S) - 1 : f[i].count >= f[i + 1].count}

\* the scope check of Service.GetTopBreakdowns: the error message, "" when it passes
GetTopBreakdowns_Validate(r) ==
    IF ToLower(TrimSpace(r.scope)) \notin {<<"line">>, <<"station">>}
    THEN "scope must be 'line' or 'station'"
    ELSE ""

\* Service.GetTopBreakdowns with Repository.GetTopBreakdownsByLine / ByStation
GetTopBreakdowns(w) ==
    /\ Idle(w)
    /\ \E r \in TopBreakdownsRequests :
        LET scope == ToLower(TrimSpace(r.scope))
            limit == EffectiveLimit(r.limit, DefaultTopLimit)
            groups == IF scope = <<"line">> THEN BreakdownsByLine ELSE BreakdownsByStation
        IN  IF GetTopBreakdowns_Validate(r) # ""
            THEN Return(w, Fail(r, "InvalidArgument", GetTopBreakdowns_Validate(r),
                                "nil", ""))
            ELSE \E rows \in OrderByCountDesc(groups) :
                    Return(w, [Ok(r) EXCEPT !.scope = scope, !.limit = limit,
                                            !.items = Limit(rows, limit)])
    /\ UNCHANGED <<lines, stations, incidents, nextId, tx>>

\* the incidents of a line in ORDER BY i.ts (incidents JOIN lines ON i.line_id = l.id)
LineIncidents(l) ==
    LET S == {i \in incidents : i.line_id = l.id}
    IN  CHOOSE f \in Perms(S) : \A k \in 1 .. Cardinality(S) - 1 : f[k].ts <= f[k + 1].ts

\* EXTRACT(EPOCH FROM (ts - prev_ts)) / 60.0: timestamps count tens of minutes
MinutesBetween(ts, prevTs) == 10 * (ts - prevTs)

\* time_deltas without its WHERE clause: the first row of a line counts as a gap of 0
AllDeltas(l) ==
    [k \in 1 .. Len(LineIncidents(l)) |->
        IF k = 1 THEN 0
        ELSE MinutesBetween(LineIncidents(l)[k].ts, LineIncidents(l)[k - 1].ts)]

\* time_deltas of a line: minutes_between of every row whose prev_ts (LAG) is not null
TimeDeltas(l) ==
    [k \in 1 .. Len(LineIncidents(l)) - 1 |->
        MinutesBetween(LineIncidents(l)[k + 1].ts, LineIncidents(l)[k].ts)]

RECURSIVE Sum(_)
Sum(q) == IF q = <<>> THEN 0 ELSE Head(q) + Sum(Tail(q))

\* an average cut off after 2 decimal places, in hundredths of a minute
TruncatedAvg(total, count) == (100 * total) \div count

\* ROUND(AVG(minutes_between)::numeric, 2), in hundredths of a minute: the average
\* of deltas that add up to `total` over `count` rows, rounded half up
RoundedAvg(total, count) == (200 * total + count) \div (2 * count)

\* the order of the names (ORDER BY line_name)
NameRank(n) ==
    IF n = <<"A">> THEN 1 ELSE IF n = <<"B">> THEN 2
    ELSE IF n = <<"X">> THEN 3 ELSE IF n = <<"Y">> THEN 4 ELSE 5

\* Repository.CalculateMTBF: line_stats WHERE incident_count >= 1 ORDER BY line_name
CalculateMTBF ==
    LET S == {[name |-> l.name,
               mtbf_minutes |-> RoundedAvg(Sum(TimeDeltas(l)), Len(TimeDeltas(l)))] :
                 l \in {l \in lines : Len(TimeDeltas(l)) >= 1}}
    IN  CHOOSE f \in Perms(S) :
            \A k \in 1 .. Cardinality(S) - 1 : NameRank(f[k].name) <= NameRank(f[k + 1].name)

\* Service.GetMTBF
GetMTBF(w) ==
    /\ Idle(w)
    /\ \E r \in MTBFRequests : Return(w, [Ok(r) EXCEPT !.items = CalculateMTBF])
    /\ UNCHANGED <<lines, stations, incidents, nextId, tx>>

\* the query without its station condition
RowsOfLine(lineName, stationName) ==
    {[line |-> l.name, station |-> st.name, ts |-> i.ts,
      duration_minutes |-> i.duration_minutes, incident_type |-> i.incident_type] :
        <<i, l, st>> \in {<<i, l, st>> \in incidents \X lines \X stations :
                            /\ i.line_id = l.id /\ i.station_id = st.id
                            /\ lineName # <<>> => l.name = lineName}}

\* FROM incidents i JOIN lines l ON i.line_id = l.id JOIN stations s
\* ON i.station_id = s.id WHERE 1=1 [AND l.name = $1] [AND s.name = $2]
DisruptionRows(lineName, stationName) ==
    {[line |-> l.name, station |-> st.name, ts |-> i.ts,
      duration_minutes |-> i.duration_minutes, incident_type |-> i.incident_type] :
        <<i, l, st>> \in {<<i, l, st>> \in incidents \X lines \X stations :
                            /\ i.line_id = l.id /\ i.station_id = st.id
                            /\ lineName # <<>> => l.name = lineName
                            /\ stationName # <<>> => st.name = stationName}}

\* ORDER BY i.ts ASC, the oldest first
OrderByTsAsc(S) ==
    {f \in Perms(S) : \A k \in 1 .. Cardinality(S) - 1 : f[k].ts <= f[k + 1].ts}

\* ORDER BY i.ts DESC: rows of equal ts come in any order
OrderByTsDesc(S) ==
    {f \in Perms(S) : \A k \in 1 .. Cardinality(S) - 1 : f[k].ts >= f[k + 1].ts}

\* Service.GetRecentDisruptions with Repository.GetRecentDisruptions
GetRecentDisruptions(w) ==
    /\ Idle(w)
    /\ \E r \in RecentDisruptionsRequests :
        LET limit == EffectiveLimit(r.limit, DefaultRecentLimit)
            lineName == TrimSpace(r.line)
            stationName == TrimSpace(r.station)
        IN  \E rows \in OrderByTsDesc(DisruptionRows(lineName, stationName)) :
                Return(w, [Ok(r) EXCEPT !.limit = limit,
                                        !.items = IF limit > 0 THEN Limit(rows, limit)
                                                  ELSE rows])
    /\ UNCHANGED <<lines, stations, incidents, nextId, tx>>

-----------------------------------------------------------------------------
(* Listings *)

\* Service.ListLines and Repository.ListLines:
\* SELECT id, name, created_at FROM lines ORDER BY name
ListLines(w) ==
    /\ Idle(w)
    /\ \E r \in ListLinesRequests :
        \E rows \in {f \in Perms(lines) :
                        \A k \in 1 .. Len(f) - 1 :
                            NameRank(f[k].name) <= NameRank(f[k + 1].name)} :
            Return(w, [Ok(r) EXCEPT !.items = rows])
    /\ UNCHANGED <<lines, stations, incidents, nextId, tx>>

\* FROM stations s JOIN lines l ON s.line_id = l.id [WHERE s.line_id = $1]
ListStationsRows(lineID) ==
    {[id |-> st.id, name |-> st.name, line_id |-> st.line_id, line_name |-> l.name,
      status |-> st.status] :
        <<st, l>> \in {<<st, l>> \in stations \X lines :
                         /\ st.line_id = l.id
                         /\ lineID # NoLineId => st.line_id = lineID}}

\* ORDER BY l.name, s.name
OrderByLineAndName(S) ==
    {f \in Perms(S) :
        \A k \in 1 .. Len(f) - 1 :
            \/ NameRank(f[k].line_name) < NameRank(f[k + 1].line_name)
            \/ /\ NameRank(f[k].line_name) = NameRank(f[k + 1].line_name)
               /\ NameRank(f[k].name) <= NameRank(f[k + 1].name)}

\* Service.ListStations and Repository.ListStations
ListStations(w) ==
    /\ Idle(w)
    /\ \E r \in ListStationsRequests :
        IF r.line_id # NoLineId /\ ParseError(r.line_id)
        THEN Return(w, Fail(r, "InvalidArgument", "invalid line ID", "nil", ""))
        ELSE \E rows \in OrderByLineAndName(ListStationsRows(r.line_id)) :
                Return(w, [Ok(r) EXCEPT !.items = rows])
    /\ UNCHANGED <<lines, stations, incidents, nextId, tx>>

-----------------------------------------------------------------------------
(* Validation *)

\* the checks a handler makes before its first repository call: the error
\* message, "" when the request passes
RequestError(r) ==
    CASE r.op = "CreateIncident" -> validateIncidentRequest(r)
      [] r.op = "CreateLine" -> CreateLine_Validate(r)
      [] r.op = "UpdateLine" -> UpdateLine_Validate(r)
      [] r.op = "CreateStation" -> CreateStation_Validate(r)
      [] r.op = "UpdateStation" -> UpdateStation_Validate(r)
      [] r.op = "GetTopBreakdowns" -> GetTopBreakdowns_Validate(r)
      [] OTHER -> ""

\* the names a handler hands to the repository once the request has passed:
\* UpdateStation hands over a name when req.Name != ""
NamesPassed(r) ==
    CASE r.op = "CreateIncident" -> {TrimSpace(r.line), TrimSpace(r.station)}
      [] r.op \in {"CreateLine", "UpdateLine", "CreateStation"} -> {TrimSpace(r.name)}
      [] r.op = "UpdateStation" -> IF r.name # <<>> THEN {TrimSpace(r.name)} ELSE {}
      [] OTHER -> {}

\* a handler up to its first repository call: the request is rejected, or
\* passes and its names go to the repository
Validate(w) ==
    /\ Idle(w)
    /\ \E r \in ValidationRequests :
        IF RequestError(r) # ""
        THEN Return(w, Fail(r, "InvalidArgument", RequestError(r), "nil", ""))
        ELSE Return(w, [NoRet EXCEPT !.req = r, !.code = "Passed",
                                     !.items = NamesPassed(r)])
    /\ UNCHANGED <<lines, stations, incidents, nextId, tx>>

-----------------------------------------------------------------------------
(* Failures of the store *)

\* every request a caller may send
Requests ==
    CreateIncidentRequests \cup CreateLineRequests \cup GetLineRequests
    \cup UpdateLineRequests \cup DeleteLineRequests \cup CreateStationRequests
    \cup GetStationRequests \cup UpdateStationRequests \cup DeleteStationRequests
    \cup TopBreakdownsRequests \cup MTBFRequests \cup RecentDisruptionsRequests
    \cup ListLinesRequests \cup ListStationsRequests

\* the request passes the checks of its handler and goes to the repository
Accepted(r) ==
    /\ RequestError(r) = ""
    /\ r.op \in {"GetLine", "DeleteLine", "GetStation", "DeleteStation"} => ~ParseError(r.id)
    /\ r.op = "ListStations" => r.line_id = NoLineId \/ ~ParseError(r.line_id)

\* what a handler answers when its repository call returns an error that is
\* not ErrNotFound
FailureMessage(op) ==
    CASE op = "CreateLine" -> "failed to create line"
      [] op = "ListLines" -> "failed to list lines"
      [] op = "GetLine" -> "failed to get line"
      [] op = "UpdateLine" -> "failed to update line"
      [] op = "DeleteLine" -> "failed to delete line"
      [] op = "CreateStation" -> "failed to create station"
      [] op = "ListStations" -> "failed to list stations"
      [] op = "GetStation" -> "failed to get station"
      [] op = "UpdateStation" -> "failed to update station"
      [] op = "DeleteStation" -> "failed to delete station"
      [] op = "GetTopBreakdowns" -> "failed to get breakdowns"
      [] op = "GetMTBF" -> "failed to calculate MTBF"
      [] op = "GetRecentDisruptions" -> "failed to get disruptions"
      [] OTHER -> "failed to create incident"

\* the same, for the statement a call has come to
StatementMessage(label, op) ==
    IF label \in {"GetOrCreateLine.insert", "GetOrCreateLine.commit"}
       \/ (label = "idle" /\ op = "CreateIncident")
    THEN "failed to process line"
    ELSE IF label \in {"GetOrCreateStation.select", "GetOrCreateStation.insert",
                       "GetOrCreateStation.commit"}
    THEN "failed to process station"
    ELSE FailureMessage(op)

\* The statement a call is about to run fails for a reason of the store's own
\* (connection lost, timeout): the repository wraps the error as
\* ErrDatabaseError, an open transaction is rolled back, the handler answers.
StoreFailure(w) ==
    /\ ret = NoRet
    /\ \E r \in (IF pc[w] = "idle" THEN {q \in Requests : Accepted(q)} ELSE {req[w]}) :
        Return(w, Fail(r, "Internal", StatementMessage(pc[w], r.op), "ErrDatabaseError",
                       "store_failure"))
    /\ tx' = [tx EXCEPT ![w] = NoTx]
    /\ UNCHANGED <<lines, stations, incidents, nextId>>

-----------------------------------------------------------------------------
(* Specifications *)

\* no other call is under way
OthersIdle(w) == \A o \in Workers \ {w} : pc[o] = "idle"

\* Every call.  A call of several statements starts while the other worker is
\* idle; the single-statement calls of the other worker interleave with it.
Next ==
    \/ Deliver
    \/ \E w \in Workers :
        \/ OthersIdle(w) /\ CreateIncident_Start(w)
        \/ GetOrCreateLine_Insert(w)
        \/ GetOrCreateLine_Commit(w)
        \/ GetOrCreateStation_Select(w)
        \/ GetOrCreateStation_Insert(w)
        \/ GetOrCreateStation_Commit(w)
        \/ CreateIncident_Insert(w)
        \/ CreateLine(w)
        \/ GetLine(w)
        \/ UpdateLine(w)
        \/ DeleteLine(w)
        \/ OthersIdle(w) /\ CreateStation_Start(w)
        \/ CreateStation_Insert(w)
        \/ GetStation(w)
        \/ OthersIdle(w) /\ UpdateStation_Start(w)
        \/ UpdateStation_Update(w)
        \/ DeleteStation(w)

Spec == Init /\ [][Next]_vars

\* Incident ingestion alone, two requests at a time
NextIngest ==
    \/ DeliverIncident
    \/ \E w \in Workers :
        \/ CreateIncident_Start(w)
        \/ GetOrCreateLine_Insert(w)
        \/ GetOrCreateLine_Commit(w)
        \/ GetOrCreateStation_Select(w)
        \/ GetOrCreateStation_Insert(w)
        \/ GetOrCreateStation_Commit(w)
        \/ CreateIncident_Insert(w)

SpecIngest == Init /\ [][NextIngest]_vars


\* the other worker is idle or in the middle of an UpdateStation
OthersUpdating(w) ==
    \A o \in Workers \ {w} : pc[o] \in {"idle", "UpdateStation.update"}

\* Station updates, two at a time; a station is created while nothing else runs
NextStations ==
    \/ Deliver
    \/ \E w \in Workers :
        \/ CreateLine(w)
        \/ OthersIdle(w) /\ CreateStation_Start(w)
        \/ CreateStation_Insert(w)
        \/ OthersUpdating(w) /\ UpdateStation_Start(w)
        \/ UpdateStation_Update(w)
        \/ DeleteStation(w)

SpecStations == Init /\ [][NextStations]_vars

\* Line maintenance alone
NextLines ==
    \/ DeliverLine
    \/ \E w \in Workers :
        \/ CreateLine(w)
        \/ UpdateLine(w)
        \/ DeleteLine(w)

SpecLines == Init /\ [][NextLines]_vars

\* Every call of the service, one call at a time
NextService ==
    \/ Deliver
    \/ \E w \in Workers :
        \/ OthersIdle(w) /\ CreateIncident_Start(w)
        \/ GetOrCreateLine_Insert(w)
        \/ GetOrCreateLine_Commit(w)
        \/ GetOrCreateStation_Select(w)
        \/ GetOrCreateStation_Insert(w)
        \/ GetOrCreateStation_Commit(w)
        \/ CreateIncident_Insert(w)
        \/ OthersIdle(w) /\ CreateLine(w)
        \/ OthersIdle(w) /\ GetLine(w)
        \/ OthersIdle(w) /\ UpdateLine(w)
        \/ OthersIdle(w) /\ DeleteLine(w)
        \/ OthersIdle(w) /\ CreateStation_Start(w)
        \/ CreateStation_Insert(w)
        \/ OthersIdle(w) /\ GetStation(w)
        \/ OthersIdle(w) /\ UpdateStation_Start(w)
        \/ UpdateStation_Update(w)
        \/ OthersIdle(w) /\ DeleteStation(w)
        \/ OthersIdle(w) /\ GetTopBreakdowns(w)
        \/ OthersIdle(w) /\ GetMTBF(w)
        \/ OthersIdle(w) /\ GetRecentDisruptions(w)
        \/ OthersIdle(w) /\ ListLines(w)
        \/ OthersIdle(w) /\ ListStations(w)
        \/ (pc[w] = "idle" => OthersIdle(w)) /\ StoreFailure(w)

SpecService == Init /\ [][NextService]_vars

\* The input checks of the handlers, on requests at the edges of the rules
NextValidation ==
    \/ Deliver
    \/ \E w \in Workers : Validate(w)

SpecValidation == Init /\ [][NextValidation]_vars

\* The analytics queries over a store of lines, stations and incidents
NextQueries ==
    \/ Deliver
    \/ \E w \in Workers :
        \/ GetTopBreakdowns(w)
        \/ GetMTBF(w)
        \/ GetRecentDisruptions(w)

SpecQueries == InitQueries /\ [][NextQueries]_vars

\* The calls that write, one call at a time, with failures of the store
NextWrites ==
    \/ DeliverTables
    \/ \E w \in Workers :
        \/ OthersIdle(w) /\ CreateIncident_Start(w)
        \/ GetOrCreateLine_Insert(w)
        \/ GetOrCreateLine_Commit(w)
        \/ GetOrCreateStation_Select(w)
        \/ GetOrCreateStation_Insert(w)
        \/ GetOrCreateStation_Commit(w)
        \/ CreateIncident_Insert(w)
        \/ OthersIdle(w) /\ CreateLine(w)
        \/ OthersIdle(w) /\ UpdateLine(w)
        \/ OthersIdle(w) /\ DeleteLine(w)
        \/ OthersIdle(w) /\ CreateStation_Start(w)
        \/ CreateStation_Insert(w)
        \/ OthersIdle(w) /\ UpdateStation_Start(w)
        \/ UpdateStation_Update(w)
        \/ OthersIdle(w) /\ DeleteStation(w)
        \/ (pc[w] = "idle" => OthersIdle(w)) /\ StoreFailure(w)

SpecWrites == Init /\ [][NextWrites]_vars

-----------------------------------------------------------------------------
(* The pool of connections: sql.DB as main.go configures it. A repository   *)
(* function takes a connection with BeginTxx and gives it back with Commit  *)
(* or with the deferred Rollback, or takes one for the length of a single    *)
(* statement sent through r.db. The two workers of the specifications above  *)
(* never hold more than two connections, so the pool is studied on its own, *)
(* with more callers than connections: one caller is followed by name       *)
(* (`me`), the others are counted.                                          *)

\* s.db.SetMaxOpenConns(25)
MaxOpenConns == 25

\* number of concurrent callers
MaxCallers == 27

\* where a caller waiting for a connection stands
WaitingForConn == {"BeginTxx.wait", "db.wait"}

\* where a caller holding a connection stands
HoldingConn == {"tx.select", "tx.insert", "db.stmt"}

\* the callers other than `me` that are inside a repository function
Others(p) == p.waitTx + p.waitDb + p.sel + p.ins + p.stmt

\* the requests for a connection that are waiting
Waiters(p) == p.waitTx + p.waitDb + (IF p.me \in WaitingForConn THEN 1 ELSE 0)

\* the callers that hold a connection
Holders(p) == p.sel + p.ins + p.stmt + (IF p.me \in HoldingConn THEN 1 ELSE 0)

\* a caller gives its connection back and nobody gets it: the connection
\* stays counted as in use
keepConn(p) == {p}

\* a caller gives its connection back: the pool hands it to one of the waiting
\* requests, whichever it picks, and otherwise the connection is free again
putConn(p) ==
    IF Waiters(p) = 0
    THEN {[p EXCEPT !.inUse = @ - 1]}
    ELSE {[p EXCEPT !.waitTx = @ - 1, !.sel = @ + 1] : x \in {y \in {1} : p.waitTx > 0}}
         \cup {[p EXCEPT !.waitDb = @ - 1, !.stmt = @ + 1] : x \in {y \in {1} : p.waitDb > 0}}
         \cup {[p EXCEPT !.me = "tx.select"] : x \in {y \in {1} : p.me = "BeginTxx.wait"}}
         \cup {[p EXCEPT !.me = "db.stmt"] : x \in {y \in {1} : p.me = "db.wait"}}

\* the pool moves and the store is not looked at
PoolStep(q) ==
    /\ pool' = q
    /\ UNCHANGED <<lines, stations, incidents, nextId, pc, req, line, station, current, tx, ret,
                   lastCreateLine, submitted, atReturn>>

\* r.db.BeginTxx by another caller: a connection while fewer than MaxOpenConns
\* are in use, and the request waits otherwise
Other_BeginTxx ==
    /\ Others(pool) < MaxCallers - 1
    /\ PoolStep(IF pool.inUse < MaxOpenConns
                THEN [pool EXCEPT !.inUse = @ + 1, !.sel = @ + 1]
                ELSE [pool EXCEPT !.waitTx = @ + 1])

\* r.db.GetContext, SelectContext or ExecContext by another caller
Other_Db ==
    /\ Others(pool) < MaxCallers - 1
    /\ PoolStep(IF pool.inUse < MaxOpenConns
                THEN [pool EXCEPT !.inUse = @ + 1, !.stmt = @ + 1]
                ELSE [pool EXCEPT !.waitDb = @ + 1])

\* tx.GetContext(SELECT): the row is there, or the statement fails, and the
\* function returns through the deferred Rollback; or there is no row and the
\* INSERT comes next on the same connection
Other_TxSelect ==
    /\ pool.sel > 0
    /\ \/ \E q \in putConn([pool EXCEPT !.sel = @ - 1]) : PoolStep(q)
       \/ PoolStep([pool EXCEPT !.sel = @ - 1, !.ins = @ + 1])

\* tx.GetContext(INSERT) and tx.Commit, or the deferred Rollback when the
\* INSERT fails
Other_TxInsert ==
    /\ pool.ins > 0
    /\ \E q \in putConn([pool EXCEPT !.ins = @ - 1]) : PoolStep(q)

\* the single statement has its answer
Other_DbDone ==
    /\ pool.stmt > 0
    /\ \E q \in putConn([pool EXCEPT !.stmt = @ - 1]) : PoolStep(q)

\* the context of a waiting request is done: the request fails
Other_Cancelled ==
    \/ pool.waitTx > 0 /\ PoolStep([pool EXCEPT !.waitTx = @ - 1])
    \/ pool.waitDb > 0 /\ PoolStep([pool EXCEPT !.waitDb = @ - 1])

Me_BeginTxx ==
    /\ pool.me = "idle"
    /\ PoolStep(IF pool.inUse < MaxOpenConns
                THEN [pool EXCEPT !.inUse = @ + 1, !.me = "tx.select"]
                ELSE [pool EXCEPT !.me = "BeginTxx.wait"])

Me_Db ==
    /\ pool.me = "idle"
    /\ PoolStep(IF pool.inUse < MaxOpenConns
                THEN [pool EXCEPT !.inUse = @ + 1, !.me = "db.stmt"]
                ELSE [pool EXCEPT !.me = "db.wait"])

Me_TxSelect ==
    /\ pool.me = "tx.select"
    /\ \/ \E q \in putConn([pool EXCEPT !.me = "idle"]) : PoolStep(q)
       \/ PoolStep([pool EXCEPT !.me = "tx.insert"])

Me_TxInsert ==
    /\ pool.me = "tx.insert"
    /\ \E q \in putConn([pool EXCEPT !.me = "idle"]) : PoolStep(q)

Me_DbDone ==
    /\ pool.me = "db.stmt"
    /\ \E q \in putConn([pool EXCEPT !.me = "idle"]) : PoolStep(q)

\* fmt.Errorf("%w: %v", ErrDatabaseError, err): the waiting request failed
Me_Cancelled ==
    /\ pool.me \in WaitingForConn
    /\ PoolStep([pool EXCEPT !.me = "error"])

\* the error is returned to the handler
Me_Return ==
    /\ pool.me = "error"
    /\ PoolStep([pool EXCEPT !.me = "idle"])

NextPool ==
    \/ Other_BeginTxx
    \/ Other_Db
    \/ Other_TxSelect
    \/ Other_TxInsert
    \/ Other_DbDone
    \/ Other_Cancelled
    \/ Me_BeginTxx
    \/ Me_Db
    \/ Me_TxSelect
    \/ Me_TxInsert
    \/ Me_DbDone
    \/ Me_Cancelled
    \/ Me_Return

\* the pool hands a connection to the request of `me`
ServeMe == NextPool /\ pool.me \in WaitingForConn /\ pool'.me \in HoldingConn

\* A caller that holds a connection runs on: the store answers its statement
\* and the function returns. The pool picks among the waiting requests without
\* an order, and does not pass one of them over for ever.
PoolFairness ==
    /\ WF_vars(Other_TxSelect)
    /\ WF_vars(Other_TxInsert)
    /\ WF_vars(Other_DbDone)
    /\ WF_vars(Me_TxSelect)
    /\ WF_vars(Me_TxInsert)
    /\ WF_vars(Me_DbDone)
    /\ WF_vars(ServeMe)

SpecPool == Init /\ [][NextPool]_vars /\ PoolFairness

-----------------------------------------------------------------------------
(* Properties *)

\* the response waiting to be handed over answers a call of `op`
Returned(op) == ret # NoRet /\ ret.req.op = op

\* C1: concurrent GetOrCreateLine calls with the same new name leave one row of
\* that name, and none of them returns an error.
C1_GetOrCreateLineConcurrent ==
    /\ \A l1, l2 \in lines : l1.name = l2.name => l1 = l2
    /\ ~(Returned("CreateIncident") /\ ret.msg = "failed to process line")

\* C2: concurrent GetOrCreateStation calls with the same new (name, lineId) on an
\* existing line leave one row of that pair, and none of them returns an error.
C2_GetOrCreateStationConcurrent ==
    /\ \A s1, s2 \in stations :
         s1.name = s2.name /\ s1.line_id = s2.line_id => s1 = s2
    /\ ~(Returned("CreateIncident") /\ ret.msg = "failed to process station")

\* C3: every valid CreateIncident request succeeds, whatever other CreateIncident
\* requests run beside it, and reports the id earlier submissions of its triple
\* were given.
C3_IngestionIdempotent ==
    Returned("CreateIncident") /\ validateIncidentRequest(ret.req) = "" =>
        /\ ret.code = "OK"
        /\ \A h \in submitted :
             h.station_id = ret.station_id /\ h.line_id = ret.line_id
             /\ h.ts = ret.req.ts => h.id = ret.id

\* C4: a CreateIncident on a (station, line, timestamp) triple submitted before
\* returns the id the earlier submissions returned; one incident row exists for
\* the triple, and it carries the duration and type of this latest submission.
C4_RepeatedCreateIncident ==
    Returned("CreateIncident") /\ ret.code = "OK" =>
        /\ \A h \in submitted :
             h.station_id = ret.station_id /\ h.line_id = ret.line_id
             /\ h.ts = ret.req.ts => h.id = ret.id
        /\ IncidentByKey(ret.station_id, ret.line_id, ret.req.ts) =
             {[id |-> ret.id, station_id |-> ret.station_id, line_id |-> ret.line_id,
               ts |-> ret.req.ts, duration_minutes |-> ret.req.duration_minutes,
               incident_type |-> ret.req.incident_type]}

\* a second submission of a triple, with another duration, has just returned
C4_Witness ==
    /\ Returned("CreateIncident") /\ ret.code = "OK"
    /\ \E h \in submitted :
         /\ h.station_id = ret.station_id /\ h.line_id = ret.line_id
         /\ h.ts = ret.req.ts
         /\ h.duration_minutes # ret.req.duration_minutes

C6_IncidentLineIsStationLine ==
    \A i \in incidents :
        /\ \E s \in stations : s.id = i.station_id
        /\ \A s \in stations : s.id = i.station_id => s.line_id = i.line_id

\* an incident is on record while there are two lines
C6_Witness ==
    /\ incidents # {}
    /\ Cardinality(lines) = 2

\* C7: CreateStation beside a DeleteLine of its line succeeds or returns NotFound,
\* never Internal.
C7_CreateStationNeverInternal ==
    Returned("CreateStation") =>
        /\ ret.code \in {"OK", "NotFound", "InvalidArgument"}
        /\ ret.cause # "foreign_key_violation"

\* C8: a GetOrCreateStation insert for a line that does not exist fails with
\* ErrNotFound and creates no station.
C8_GetOrCreateStationNotFound ==
    [][\A w \in Workers :
         At(w, "GetOrCreateStation.insert") /\ LineById(line[w]) = {}
         /\ pc'[w] # pc[w]
         => ret'.err = "ErrNotFound" /\ stations' = stations]_vars

\* C9: an UpdateStation leaves the field its caller omitted as it is in the
\* store: a status-only update does not change the name, a name-only update does
\* not change the status.
C9_UpdateStationKeepsOmitted ==
    [][\A w \in Workers :
         At(w, "UpdateStation.update") /\ pc'[w] # pc[w] =>
            \A s \in stations : \A t \in stations' :
                s.id = req[w].id /\ t.id = req[w].id =>
                    /\ req[w].name = <<>> => t.name = s.name
                    /\ req[w].status = <<>> => t.status = s.status]_vars

\* C10 as stated: a CreateLine of a name returns the id the previous CreateLine
\* of that name returned, unless that line was deleted in between.
C10_CreateLineIdempotent ==
    Returned("CreateLine") /\ ret.code = "OK" /\ lastCreateLine[ret.name] # 0 =>
        ret.id = lastCreateLine[ret.name]

\* C10 amended: a CreateLine of a name returns the id and name the previous
\* CreateLine of that name returned, if the line it returned still exists under
\* that name; and one line row bears the name.
C10_CreateLineIdempotentWhileNamed ==
    Returned("CreateLine") /\ ret.code = "OK" =>
        /\ LineByName(ret.name) = {[id |-> ret.id, name |-> ret.name]}
        /\ [id |-> lastCreateLine[ret.name], name |-> ret.name] \in lines =>
             ret.id = lastCreateLine[ret.name]

\* a second CreateLine of a name has just returned the id of the first
C10_Witness ==
    /\ Returned("CreateLine") /\ ret.code = "OK"
    /\ lastCreateLine[ret.name] = ret.id


\* C11: the upsert of CreateStation on a (name, line_id) pair that exists does
\* not fail and adds no row: it returns the id and name of the existing station,
\* with the status set to the one given (active when none is given).
C11_CreateStationUpsert ==
    [][\A w \in Workers :
         LET name == TrimSpace(req[w].name)
             old == StationByKey(name, req[w].line_id)
         IN  At(w, "CreateStation.insert") /\ pc'[w] # pc[w] /\ old # {} =>
                /\ ret'.code = "OK"
                /\ ret'.id = (CHOOSE s \in old : TRUE).id
                /\ ret'.name = name
                /\ ret'.status = StatusOrDefault(req[w].status)
                /\ Cardinality(stations') = Cardinality(stations)
                /\ [id |-> ret'.id, name |-> name, line_id |-> req[w].line_id,
                    status |-> ret'.status] \in stations']_vars

\* CreateStation has just returned a station that is older than the latest id
\* the store generated: the row was there before the call
C11_Witness ==
    /\ Returned("CreateStation") /\ ret.code = "OK"
    /\ ret.status = closed
    /\ ret.id < nextId - 1


\* the tables are as they were
StoreUnchanged == UNCHANGED <<lines, stations, incidents, nextId, tx>>

\* C12: GetLine, UpdateLine, DeleteLine, GetStation, UpdateStation and
\* DeleteStation with a well-formed id that no row of their table has never
\* succeed, never return Internal and leave the store as it was; they return
\* NotFound whenever the rest of the request is valid.
C12_NotFoundPropagation ==
    [][ret' # NoRet /\ ~ParseError(ret'.req.id)
       /\ \/ /\ ret'.req.op \in {"GetLine", "UpdateLine", "DeleteLine"}
             /\ \A l \in lines : l.id # ret'.req.id
          \/ /\ ret'.req.op \in {"GetStation", "UpdateStation", "DeleteStation"}
             /\ \A st \in stations : st.id # ret'.req.id
       => /\ ret'.code \in {"NotFound", "InvalidArgument"}
          /\ ret'.code = "InvalidArgument" <=>
                \/ ret'.req.op = "UpdateLine" /\ UpdateLine_Validate(ret'.req) # ""
                \/ ret'.req.op = "UpdateStation" /\ UpdateStation_Validate(ret'.req) # ""
          /\ StoreUnchanged]_vars

\* DeleteLine has just returned NotFound for an id the store generated and no row
\* has any more
C12_Witness ==
    /\ Returned("DeleteLine") /\ ret.code = "NotFound"
    /\ ret.req.id < nextId
    /\ \A row \in lines \cup stations \cup incidents : row.id # ret.req.id
    /\ \A w \in Workers : tx[w].id # ret.req.id

\* the id a call names is no UUID: of the ids callers send, 0 is the malformed one
IdUnparsable(r) ==
    \/ r.op \in {"GetLine", "UpdateLine", "DeleteLine", "GetStation", "UpdateStation",
                 "DeleteStation"} /\ r.id = 0
    \/ r.op \in {"CreateStation", "ListStations"} /\ r.line_id = 0

\* the request fails the checks its handler makes before it turns to the repository
Rejected(r) == IdUnparsable(r) \/ RequestError(r) # ""

\* C13: a call answered InvalidArgument is answered by the first step of its
\* handler, from the request alone, before any statement of the repository and
\* with the store as it was; every request that fails a validation check, and
\* so every request whose id cannot be parsed, is answered InvalidArgument
\* (never NotFound).
C13_InvalidArgumentNoSideEffect ==
    [][ret' # NoRet =>
        /\ ret'.code = "InvalidArgument" <=> Rejected(ret'.req)
        /\ IdUnparsable(ret'.req) => ret'.code = "InvalidArgument"
        /\ ret'.code = "InvalidArgument" =>
              /\ StoreUnchanged
              /\ ret'.err = "nil"
              /\ \A w \in Workers : pc[w] = "idle" /\ pc'[w] = "idle"]_vars

\* an id that cannot be parsed was rejected while the store holds rows
C13_Witness ==
    /\ Returned("DeleteStation") /\ ParseError(ret.req.id)
    /\ ret.code = "InvalidArgument"
    /\ stations # {} /\ incidents # {}

\* the names a request supplies: UpdateStation's name is optional, "" is none
SuppliedNames(r) ==
    CASE r.op = "CreateIncident" -> {r.line, r.station}
      [] r.op \in {"CreateLine", "UpdateLine", "CreateStation"} -> {r.name}
      [] r.op = "UpdateStation" -> {r.name} \ {<<>>}
      [] OTHER -> {}

\* trimmed, the name is 1 to 100 long
NameValid(n) == Len(TrimSpace(n)) >= 1 /\ Len(TrimSpace(n)) <= MaxNameLen

NameMessages ==
    {"name must not be empty", "name must not exceed 100 characters",
     "line must not be empty", "line must not exceed 100 characters",
     "station must not be empty", "station must not exceed 100 characters"}

\* C14: a request that supplies a name whose trimmed length is outside 1..100
\* is answered InvalidArgument, no request is turned down on account of a name
\* whose trimmed length is inside 1..100, and every name handed to the
\* repository is trimmed, non-empty and at most 100 long.
C14_NameAcceptedIffValid ==
    [][ret' # NoRet /\ SuppliedNames(ret'.req) # {} =>
        /\ (\E n \in SuppliedNames(ret'.req) : ~NameValid(n))
              => ret'.code = "InvalidArgument"
        /\ (\A n \in SuppliedNames(ret'.req) : NameValid(n))
              => ret'.msg \notin NameMessages
        /\ ret'.code = "Passed" =>
              \A n \in ret'.items : n = TrimSpace(n) /\ Len(n) >= 1 /\ Len(n) <= MaxNameLen]_vars

\* C15: a CreateIncident request passes validation exactly when its duration is
\* 0 to 1440 minutes, its type is one of the five, its timestamp is there and
\* not after the present, and both names are valid; any other request is
\* answered InvalidArgument.
C15_IncidentValidation ==
    [][ret' # NoRet /\ ret'.req.op = "CreateIncident" =>
        LET r == ret'.req
            valid == /\ r.duration_minutes >= 0 /\ r.duration_minutes <= 1440
                     /\ r.incident_type \in {"mechanical", "power", "signal", "weather",
                                              "other"}
                     /\ r.ts # 0 /\ r.ts <= Now
                     /\ NameValid(r.line) /\ NameValid(r.station)
        IN  /\ valid <=> ret'.code # "InvalidArgument"
            /\ ~valid => ret'.code = "InvalidArgument"]_vars

\* a request at the upper edge of every rule passed
C15_Witness ==
    /\ Returned("CreateIncident") /\ ret.code = "Passed"
    /\ ret.req.duration_minutes = MaxDuration /\ ret.req.ts = Now

\* C16: the limit handed to the store is in 1..100: a requested limit of 0 or
\* less becomes 5 for GetTopBreakdowns and 20 for GetRecentDisruptions, one
\* above 100 becomes 100, any other is handed on as it is; and the answer has
\* no more items than that limit.
C16_EffectiveLimit ==
    [][ret' # NoRet /\ ret'.code = "OK"
         /\ ret'.req.op \in {"GetTopBreakdowns", "GetRecentDisruptions"} =>
        LET n == ret'.req.limit
            def == IF ret'.req.op = "GetTopBreakdowns" THEN 5 ELSE 20
        IN  /\ ret'.limit >= 1 /\ ret'.limit <= 100
            /\ n <= 0 => ret'.limit = def
            /\ n > 100 => ret'.limit = 100
            /\ n >= 1 /\ n <= 100 => ret'.limit = n
            /\ Len(ret'.items) <= ret'.limit]_vars

\* a limit of 2 cut the answer short
C16_Witness ==
    /\ Returned("GetRecentDisruptions") /\ ret.code = "OK"
    /\ ret.req.limit = 2 /\ ret.limit = 2 /\ Len(ret.items) = 2
    /\ Cardinality(incidents) > 2 /\ ret.req.line = <<>> /\ ret.req.station = <<>>

\* the rows of the table a scope names
Entities(scope) == IF scope = <<"line">> THEN lines ELSE stations

\* the incidents of one row of that table
IncidentsOf(scope, e) ==
    IF scope = <<"line">> THEN {i \in incidents : i.line_id = e.id}
    ELSE {i \in incidents : i.station_id = e.id}

\* the incidents of all rows of that table that bear the name n
IncidentsOfName(scope, n) ==
    UNION {IncidentsOf(scope, e) : e \in {e \in Entities(scope) : e.name = n}}

\* C17, as stated: the answer of GetTopBreakdowns lists one item per line or
\* station, an item's count being the number of incidents of that line or
\* station (0 when it has none), in order of count, largest first, and cut to
\* the first `limit` items of that order.
C17_TopBreakdownsPerEntity ==
    [][ret' # NoRet /\ ret'.code = "OK" /\ ret'.req.op = "GetTopBreakdowns" =>
        LET items == ret'.items
            E == Entities(ret'.scope)
        IN  /\ \A k \in 1 .. Len(items) - 1 : items[k].count >= items[k + 1].count
            /\ Len(items) = Min(ret'.limit, Cardinality(E))
            /\ \E f \in [1 .. Len(items) -> E] :
                  /\ \A j, k \in 1 .. Len(items) : f[j] = f[k] => j = k
                  /\ \A k \in 1 .. Len(items) :
                        /\ items[k].name = f[k].name
                        /\ items[k].count = Cardinality(IncidentsOf(ret'.scope, f[k]))
                  /\ \A e \in E \ {f[k] : k \in 1 .. Len(items)} :
                        \A k \in 1 .. Len(items) :
                            Cardinality(IncidentsOf(ret'.scope, e)) <= items[k].count]_vars

\* C17, amended: the answer lists one item per name borne by a line or station,
\* an item's count being the number of incidents of all lines or stations of
\* that name (0 when they have none), in order of count, largest first, and
\* cut to the first `limit` items of that order.
C17_TopBreakdownsPerName ==
    [][ret' # NoRet /\ ret'.code = "OK" /\ ret'.req.op = "GetTopBreakdowns" =>
        LET items == ret'.items
            N == {e.name : e \in Entities(ret'.scope)}
            listed == {items[k].name : k \in 1 .. Len(items)}
        IN  /\ \A k \in 1 .. Len(items) - 1 : items[k].count >= items[k + 1].count
            /\ Len(items) = Min(ret'.limit, Cardinality(N))
            /\ listed \subseteq N /\ Cardinality(listed) = Len(items)
            /\ \A k \in 1 .. Len(items) :
                  items[k].count = Cardinality(IncidentsOfName(ret'.scope, items[k].name))
            /\ \A n \in N \ listed : \A k \in 1 .. Len(items) :
                  Cardinality(IncidentsOfName(ret'.scope, n)) <= items[k].count]_vars

\* the stations named X on two lines were counted as one, ahead of a station
\* without incidents
C17_Witness ==
    /\ Returned("GetTopBreakdowns") /\ ret.code = "OK" /\ ret.scope = <<"station">>
    /\ Len(ret.items) = 2
    /\ ret.items[1] = [name |-> <<"X">>, count |-> 3]
    /\ ret.items[2] = [name |-> <<"Y">>, count |-> 0]
    /\ \E i, j \in incidents : i.station_id = 3 /\ j.station_id = 4

\* the timestamps of the incidents of a line, all its stations together
TimesOf(l) == {i.ts : i \in {i \in incidents : i.line_id = l.id}}

Latest(T) == CHOOSE t \in T : \A u \in T : u <= t

Earliest(T) == CHOOSE t \in T : \A u \in T : t <= u

\* minutes from the earliest to the latest incident of a line
SpanMinutes(l) == 10 * (Latest(TimesOf(l)) - Earliest(TimesOf(l)))

\* incidents of a line, less one: the number of gaps between consecutive incidents
Gaps(l) == Cardinality({i \in incidents : i.line_id = l.id}) - 1

\* C18, as stated: for every line with two incidents or more, the mtbf_minutes
\* GetMTBF reports (here in hundredths of a minute) is the mean gap between
\* consecutive incidents of the line, (latest - earliest) / (count - 1).
C18_MTBFExactMean ==
    [][ret' # NoRet /\ ret'.req.op = "GetMTBF" =>
        \A l \in lines : Gaps(l) >= 1 =>
            \A k \in 1 .. Len(ret'.items) : ret'.items[k].name = l.name =>
                ret'.items[k].mtbf_minutes * Gaps(l) = 100 * SpanMinutes(l)]_vars

\* C18, amended: for every line with two incidents or more, the mtbf_minutes
\* GetMTBF reports is the mean gap between consecutive incidents of the line,
\* (latest - earliest) / (count - 1), rounded to 2 decimal places (a half
\* rounds up).
C18_MTBFRoundedMean ==
    [][ret' # NoRet /\ ret'.req.op = "GetMTBF" =>
        \A l \in lines : Gaps(l) >= 1 =>
            /\ \E k \in 1 .. Len(ret'.items) : ret'.items[k].name = l.name
            /\ \A k \in 1 .. Len(ret'.items) : ret'.items[k].name = l.name =>
                LET m == ret'.items[k].mtbf_minutes
                IN  /\ 2 * Gaps(l) * m - Gaps(l) <= 200 * SpanMinutes(l)
                    /\ 200 * SpanMinutes(l) < 2 * Gaps(l) * m + Gaps(l)]_vars

\* incidents of line A at t0, t0 + 10 and t0 + 30 minutes, at two stations:
\* 15.00 is reported
C18_Witness ==
    /\ Returned("GetMTBF") /\ ret.code = "OK"
    /\ {<<i.station_id, i.ts>> : i \in {i \in incidents : i.line_id = 1}}
          = {<<3, 1>>, <<5, 2>>, <<3, 4>>}
    /\ \E k \in 1 .. Len(ret.items) :
          ret.items[k] = [name |-> <<"A">>, mtbf_minutes |-> 1500]

\* C19: GetMTBF reports a line exactly when the line has two incidents or more,
\* reports no line twice, and lists the lines by name, ascending.
C19_MTBFRows ==
    [][ret' # NoRet /\ ret'.req.op = "GetMTBF" =>
        LET items == ret'.items
            due == {l \in lines : Cardinality({i \in incidents : i.line_id = l.id}) >= 2}
        IN  /\ ret'.code = "OK"
            /\ {items[k].name : k \in 1 .. Len(items)} = {l.name : l \in due}
            /\ Len(items) = Cardinality(due)
            /\ \A j, k \in 1 .. Len(items) :
                  j < k => NameRank(items[j].name) < NameRank(items[k].name)]_vars

\* both lines are reported, A before B, and no line else
C19_Witness ==
    /\ Returned("GetMTBF") /\ Len(ret.items) = 2
    /\ ret.items[1].name = <<"A">> /\ ret.items[2].name = <<"B">>
    /\ \E i \in incidents : i.station_id = 5

\* a filter is given: it is neither empty nor white space only
Given(filter) == TrimSpace(filter) # <<>>

\* the name of the line, or of the station, with that id
NameOfLine(id) == (CHOOSE l \in lines : l.id = id).name

NameOfStation(id) == (CHOOSE st \in stations : st.id = id).name

\* C20, as stated: every item GetRecentDisruptions returns has the line filter
\* for its line name when a line filter is given, and the station filter for
\* its station name when a station filter is given; a filter that is empty or
\* white space only is none.
C20_FilterExact ==
    [][ret' # NoRet /\ ret'.req.op = "GetRecentDisruptions" =>
        \A k \in 1 .. Len(ret'.items) :
            /\ Given(ret'.req.line) => ret'.items[k].line = ret'.req.line
            /\ Given(ret'.req.station) => ret'.items[k].station = ret'.req.station]_vars

\* C20, amended: every item GetRecentDisruptions returns has the trimmed line
\* filter for its line name when a line filter is given, and the trimmed
\* station filter for its station name when a station filter is given; a
\* filter that is empty or white space only is none; the incidents that meet
\* the filters given are all eligible: the answer holds as many of them as the
\* limit allows, each once.
C20_FilterTrimmed ==
    [][ret' # NoRet /\ ret'.req.op = "GetRecentDisruptions" =>
        LET items == ret'.items
            r == ret'.req
            eligible ==
                {i \in incidents :
                    /\ Given(r.line) => NameOfLine(i.line_id) = TrimSpace(r.line)
                    /\ Given(r.station) => NameOfStation(i.station_id) = TrimSpace(r.station)}
        IN  /\ ret'.code = "OK"
            /\ Len(items) = Min(ret'.limit, Cardinality(eligible))
            /\ \A j, k \in 1 .. Len(items) : items[j] = items[k] => j = k
            /\ \A k \in 1 .. Len(items) :
                  \E i \in eligible :
                      /\ items[k].line = NameOfLine(i.line_id)
                      /\ items[k].station = NameOfStation(i.station_id)
                      /\ items[k].ts = i.ts]_vars

\* a padded line filter and a station filter picked the incidents of station X
\* of line A and left out those of station Y of the line and of station X of
\* line B
C20_Witness ==
    /\ Returned("GetRecentDisruptions")
    /\ ret.req.line = <<SP, "A", SP>> /\ ret.req.station = <<"X">>
    /\ Len(ret.items) = 2
    /\ \A k \in 1 .. 2 : ret.items[k].line = <<"A">> /\ ret.items[k].station = <<"X">>
    /\ \E i, j \in incidents : i.station_id = 4 /\ j.station_id = 5

\* the incidents that meet the filters of a request, as rows of the answer
EligibleRows(r) ==
    {[line |-> NameOfLine(i.line_id), station |-> NameOfStation(i.station_id),
      ts |-> i.ts, duration_minutes |-> i.duration_minutes,
      incident_type |-> i.incident_type] :
        i \in {i \in incidents :
                /\ Given(r.line) => NameOfLine(i.line_id) = TrimSpace(r.line)
                /\ Given(r.station) => NameOfStation(i.station_id) = TrimSpace(r.station)}}

\* the rows of an answer
Listed(items) == {items[k] : k \in 1 .. Len(items)}

\* C21, as stated: the items GetRecentDisruptions returns are in strictly
\* descending order of timestamp, each item later than the next, and they are
\* the most recent of the incidents that meet the filters.
C21_StrictlyDescending ==
    [][ret' # NoRet /\ ret'.req.op = "GetRecentDisruptions" =>
        /\ \A k \in 1 .. Len(ret'.items) - 1 : ret'.items[k].ts > ret'.items[k + 1].ts
        /\ \A row \in EligibleRows(ret'.req) \ Listed(ret'.items) :
              \A k \in 1 .. Len(ret'.items) : row.ts <= ret'.items[k].ts]_vars

\* C21, amended: the items GetRecentDisruptions returns are in descending order
\* of timestamp, no item earlier than the next (incidents of one timestamp
\* come in any order), and they are the most recent of the incidents that
\* meet the filters: no incident left out is later than an item returned.
C21_Descending ==
    [][ret' # NoRet /\ ret'.req.op = "GetRecentDisruptions" =>
        /\ \A k \in 1 .. Len(ret'.items) - 1 : ret'.items[k].ts >= ret'.items[k + 1].ts
        /\ Listed(ret'.items) \subseteq EligibleRows(ret'.req)
        /\ \A row \in EligibleRows(ret'.req) \ Listed(ret'.items) :
              \A k \in 1 .. Len(ret'.items) : row.ts <= ret'.items[k].ts]_vars

\* two incidents of one timestamp head the answer and an older one is cut off
C21_Witness ==
    /\ Returned("GetRecentDisruptions") /\ ret.req.limit = 2 /\ Len(ret.items) = 2
    /\ ret.items[1].ts = ret.items[2].ts
    /\ \E i \in incidents : i.ts < ret.items[2].ts

\* C22: when the repository returns an error that is not ErrNotFound, the
\* handler answers Internal and nothing else: no id, no name, no row, no item
\* of a list; and no call answers OK unless its repository calls returned no
\* error.
C22_StoreFailureIsInternal ==
    [][ret' # NoRet =>
        /\ ret'.err = "ErrDatabaseError" =>
              ret' = [NoRet EXCEPT !.req = ret'.req, !.code = "Internal",
                                   !.msg = ret'.msg, !.err = "ErrDatabaseError",
                                   !.cause = ret'.cause]
        /\ ret'.code = "OK" => ret'.err = "nil"
        /\ ret'.code = "Internal" => ret'.err = "ErrDatabaseError" /\ ret'.items = <<>>]_vars

\* the store failed under a query while it held incidents
C22_Witness ==
    /\ Returned("GetRecentDisruptions") /\ ret.code = "Internal"
    /\ ret.cause = "store_failure" /\ ret.items = <<>>
    /\ incidents # {}

\* C23: a CreateStation call whose status is empty or white space is answered,
\* and leaves the store, as the call with the status active is: it is not
\* turned down for its status, an OK answer bears the status active and the
\* id of the station of that name on that line (the one there was, or else a
\* new one), that station is in the store with the status active and all
\* other stations are as they were.
C23_DefaultStatusIsActive ==
    [][ret' # NoRet /\ ret'.req.op = "CreateStation"
         /\ TrimSpace(ret'.req.status) \in {<<>>, <<"active">>} =>
        LET r == ret'.req
            name == TrimSpace(r.name)
            old == {st \in stations : st.name = name /\ st.line_id = r.line_id}
            row == [id |-> IF old = {} THEN nextId ELSE (CHOOSE st \in old : TRUE).id,
                    name |-> name, line_id |-> r.line_id, status |-> <<"active">>]
        IN  /\ CreateStation_Validate([r EXCEPT !.status = <<"active">>]) = ""
              <=> ret'.code # "InvalidArgument"
            /\ ret'.code = "OK" =>
                  /\ ret' = [NoRet EXCEPT !.req = r, !.code = "OK", !.id = row.id,
                                          !.name = name, !.line_id = r.line_id,
                                          !.status = <<"active">>]
                  /\ stations' = (stations \ old) \cup {row}
            /\ ret'.code # "OK" => stations' = stations
            /\ UNCHANGED <<lines, incidents>>]_vars

\* a station there was already (its id is not the newest) was created again
\* with a status of white space, and is active
C23_Witness ==
    /\ Returned("CreateStation") /\ ret.code = "OK" /\ ret.req.status = <<SP>>
    /\ ret.status = <<"active">> /\ ret.id < nextId - 1
    /\ \E st \in stations : st.id = ret.id /\ st.status = <<"active">>

\* the rows inserted or updated since the latest call returned: by the call
\* under way, or by the call that has just returned
RowsWritten ==
    Cardinality(lines \ atReturn.lines) + Cardinality(stations \ atReturn.stations)
    + Cardinality(incidents \ atReturn.incidents)

\* C24: a call completes one write to the store at most: between its start
\* and its return, with success or with an error, one row at most is inserted
\* or updated.
C24_AtMostOneWrite == RowsWritten <= 1

ReadOps == {"GetTopBreakdowns", "GetMTBF", "GetRecentDisruptions", "ListLines", "ListStations",
            "GetLine", "GetStation"}

\* C26: GetTopBreakdowns, GetMTBF, GetRecentDisruptions, ListLines,
\* ListStations, GetLine and GetStation leave the store as it was whatever they
\* return, a response or an error; the tables later calls read are therefore
\* the same however often these calls are repeated.
C26_ReadsLeaveStoreUnchanged ==
    [][ret' # NoRet /\ ret'.req.op \in ReadOps => StoreUnchanged /\ Tables' = Tables]_vars

\* a read has failed on the store, with rows in every table
C26_Witness ==
    /\ ret # NoRet /\ ret.req.op \in ReadOps /\ ret.code = "Internal"
    /\ lines # {} /\ stations # {} /\ incidents # {}

\* where a call of CreateIncident stands between its first and its last statement
IngestPcs == {"GetOrCreateLine.insert", "GetOrCreateLine.commit", "GetOrCreateStation.select",
              "GetOrCreateStation.insert", "GetOrCreateStation.commit", "CreateIncident.insert"}

\* C27: GetOrCreateLine and GetOrCreateStation, given a key that has a row,
\* return that row and change nothing, and they insert only for a key that has
\* no row; a call of CreateIncident leaves every station row it finds as it
\* was, status included; CreateStation on a key that has a row keeps the id of
\* the row and sets its status to the status given, "active" when none is given.
C27_GetOrCreateVersusUpsert ==
    [][/\ \A w \in Workers :
            /\ pc[w] = "idle" /\ pc'[w] \in IngestPcs
               => LET found == LineByName(TrimSpace(req'[w].line))
                  IN  IF found # {}
                      THEN /\ pc'[w] = "GetOrCreateStation.select"
                           /\ line'[w] \in {l.id : l \in found}
                           /\ Tables' = Tables
                      ELSE pc'[w] = "GetOrCreateLine.insert"
            /\ pc[w] = "GetOrCreateStation.select" /\ pc'[w] \in IngestPcs
               => LET found == StationByKey(TrimSpace(req[w].station), line[w])
                  IN  IF found # {}
                      THEN /\ pc'[w] = "CreateIncident.insert"
                           /\ station'[w] \in {s.id : s \in found}
                           /\ Tables' = Tables
                      ELSE pc'[w] = "GetOrCreateStation.insert"
            /\ pc[w] \in IngestPcs \/ pc'[w] \in IngestPcs
               => /\ \A s \in stations : s \in stations'
                  /\ \A l \in lines : l \in lines'
      /\ ret' # NoRet /\ ret'.req.op = "CreateStation" /\ ret'.code = "OK"
         => LET r == ret'.req
                old == StationByKey(TrimSpace(r.name), r.line_id)
            IN  old # {} =>
                  /\ stations' = (stations \ old)
                        \cup {[s EXCEPT !.status = IF TrimSpace(r.status) = <<>> THEN active
                                                   ELSE TrimSpace(r.status)] : s \in old}
                  /\ ret'.id \in {s.id : s \in old}
                  /\ ret'.status = IF TrimSpace(r.status) = <<>> THEN active
                                   ELSE TrimSpace(r.status)
     ]_vars

\* an incident has been ingested for a station that CreateStation had closed,
\* and the station is still closed
C27_Witness ==
    /\ Returned("CreateIncident") /\ ret.code = "OK"
    /\ \E s \in stations, l \in lines :
         /\ s.line_id = l.id /\ l.name = TrimSpace(ret.req.line)
         /\ s.name = TrimSpace(ret.req.station) /\ s.status = closed

\* C28: in every reachable state each station's line exists and each
\* incident's station and line exist; when DeleteLine has succeeded the line,
\* its stations and their incidents are gone, and when DeleteStation has
\* succeeded the station and its incidents are gone; whatever calls that
\* create rows run at the same time.
C28_ReferentialIntegrity ==
    /\ \A s \in stations : LineById(s.line_id) # {}
    /\ \A i \in incidents : StationById(i.station_id) # {} /\ LineById(i.line_id) # {}
    /\ Returned("DeleteLine") /\ ret.code = "OK"
       => /\ LineById(ret.req.id) = {}
          /\ \A s \in stations : s.line_id # ret.req.id
          /\ \A i \in incidents : i.line_id # ret.req.id
    /\ Returned("DeleteStation") /\ ret.code = "OK"
       => /\ StationById(ret.req.id) = {}
          /\ \A i \in incidents : i.station_id # ret.req.id

\* a line has been deleted under a call of CreateIncident that had found or
\* made it and has its station still to find
C28_Witness ==
    /\ Returned("DeleteLine") /\ ret.code = "OK"
    /\ \E w \in Workers : pc[w] \in IngestPcs /\ line[w] = ret.req.id
    /\ stations # {}

\* C29: UpdateLine to a name that another line bears, and UpdateStation to a
\* name that another station of the same line bears, fail with Internal and
\* leave every row as it was: no row is merged into another or overwritten.
C29_RenameOntoExistingFails ==
    [][ret' # NoRet
       => LET r == ret'.req
          IN  /\ /\ r.op = "UpdateLine"
                 /\ \E l, o \in lines : l.id = r.id /\ o.id # r.id /\ o.name = TrimSpace(r.name)
                 => ret'.code = "Internal" /\ Tables' = Tables
              /\ /\ r.op = "UpdateStation"
                 /\ TrimSpace(r.status) \in validStatuses \cup {<<>>}
                 /\ \E s, o \in stations :
                      /\ s.id = r.id /\ o.id # r.id /\ o.line_id = s.line_id
                      /\ o.name = TrimSpace(r.name)
                 => ret'.code = "Internal" /\ Tables' = Tables
     ]_vars

\* UpdateStation has been refused the name of another station of the line
C29_Witness ==
    /\ Returned("UpdateStation") /\ ret.code = "Internal" /\ ret.cause = "unique_violation"
    /\ \E s, o \in stations :
         s.id = ret.req.id /\ o.id # s.id /\ o.line_id = s.line_id /\ o.name = TrimSpace(ret.req.name)

\* C30: in the station scope the answer of GetTopBreakdowns has no name twice,
\* and the count of a name is the number of incidents of all stations of that
\* name, whatever their line; in both scopes, when the limit is no smaller than
\* the number of names, the counts add up to the number of incidents.
C30_BreakdownsGroupedByName ==
    [][ret' # NoRet /\ ret'.code = "OK" /\ ret'.req.op = "GetTopBreakdowns" =>
        LET items == ret'.items
            names == IF ret'.scope = <<"line">> THEN {l.name : l \in lines}
                     ELSE {st.name : st \in stations}
        IN  /\ ret'.scope = <<"station">> =>
                 /\ \A j, k \in 1 .. Len(items) : items[j].name = items[k].name => j = k
                 /\ \A k \in 1 .. Len(items) :
                       items[k].count =
                         Cardinality({i \in incidents :
                                        \E st \in stations : /\ st.id = i.station_id
                                                             /\ st.name = items[k].name})
            /\ ret'.limit >= Cardinality(names) =>
                 Sum([k \in 1 .. Len(items) |-> items[k].count]) = Cardinality(incidents)]_vars

\* the answer in the station scope is complete, with one item for two
\* stations of one name on two lines that both have incidents
C30_Witness ==
    /\ Returned("GetTopBreakdowns") /\ ret.code = "OK" /\ ret.scope = <<"station">>
    /\ ret.limit >= Cardinality({st.name : st \in stations})
    /\ \E s1, s2 \in stations, i1, i2 \in incidents, k \in 1 .. Len(ret.items) :
         /\ s1.name = s2.name /\ s1.line_id # s2.line_id
         /\ i1.station_id = s1.id /\ i2.station_id = s2.id
         /\ ret.items[k].name = s1.name /\ ret.items[k].count >= 2

====
